---- MODULE Spec2Model ----
(***************************************************************************)
(* FridgeTrack client: the query cache driven by the inventory hooks       *)
(* (useInventory, useExpiringItems, useRemoveItem) and the retry helper of *)
(* the recipes endpoint (withRetry).                                       *)
(*                                                                         *)
(* The client is a single-threaded event loop.  A handler that only awaits *)
(* already-settled promises runs to completion before any other client     *)
(* event (timer, network delivery, mount) is handled; the server is a      *)
(* separate process and moves at any time.                                 *)
(***************************************************************************)
EXTENDS Integers, Sequences, FiniteSets, TLC

\* ---------------------------------------------------------------- bounds
MaxEvents == 2

\* Requests, answers and setAuthToken calls in one run of the auth model.
MaxAuthEvents == 4

\* Ticks of 10 seconds an upload request can stay unanswered in the model.
MaxTicks == 4

\* Scans one session of the page runs in the model.
MaxScans == 2

\* Files selected while ImageUpload shows its drop zone.
MaxJobs == 2

\* ------------------------------------------------------------- universe
Users == {"u1", "u2"}
Days == {3, 7}

ItemSeq ==
  << [id |-> "A", user_id |-> "u1", expires_in |-> 1],
     [id |-> "B", user_id |-> "u1", expires_in |-> 2],
     [id |-> "C", user_id |-> "u1", expires_in |-> 5],
     [id |-> "D", user_id |-> "u2", expires_in |-> 1] >>

ItemIds == {ItemSeq[i].id : i \in 1..Len(ItemSeq)}

\* The component tree passes one userId to useRemoveItem.
HookUser == "u1"

\* Ids handed to mutate(): one in every list of the user, one outside the
\* 3-day window.
RemovableIds == {"B", "C"}

\* Failures of the removal request: no response, not found, server error.
FailureStatuses == {0, 404, 500}

\* --------------------------------------------------------- query keys
inventoryKeys_all(userId) == <<"inventory", userId>>

inventoryKeys_expiring(userId, days) == <<"expiring", userId, days>>

\* The bystander user u2 has the list entry only.
Keys ==
  {inventoryKeys_all(u) : u \in Users}
    \cup {inventoryKeys_expiring("u1", d) : d \in Days}

\* A filter {queryKey: p} matches every key that starts with p.
\* A filter that compares the user id only.
PartialMatchKey_userOnly(key, p) == Len(p) >= 2 /\ key[2] = p[2]

PartialMatchKey(key, p) ==
  /\ Len(p) <= Len(key)
  /\ \A i \in 1..Len(p) : key[i] = p[i]

\* ------------------------------------------------------------- values
Undefined == [has |-> FALSE, val |-> <<>>]

Some(v) == [has |-> TRUE, val |-> v]

\* An optional string: Absent is undefined or null, which is not "".
Absent == "<absent>"

\* a ?? b
Coalesce(a, b) == IF a # Absent THEN a ELSE b

\* A response body as the client reads it: json says whether it decoded to
\* an object; error, message and detail are its optional text fields and
\* list its optional array (items, expiring_items, recipes).
NoData ==
  [json |-> FALSE, error |-> Absent, message |-> Absent, detail |-> Absent,
   list |-> Undefined]

NoError == [type |-> "none", status |-> 0, message |-> "", data |-> NoData]

\* new ApiError(status, message, data)
ApiErrorData(status, message, data) ==
  [type |-> "ApiError", status |-> status, message |-> message, data |-> data]

\* new ApiError(status, message)
ApiError(status, message) == ApiErrorData(status, message, NoData)

\* An exception that is not an ApiError.
RawError(type, message) ==
  [type |-> type, status |-> 0, message |-> message, data |-> NoData]

STATUS_MESSAGES(status) ==
  CASE status = 400 -> "Invalid request. Please check your input."
    [] status = 401 -> "Session expired. Please sign in again."
    [] status = 403 -> "You don't have permission to do that."
    [] status = 404 -> "The requested resource was not found."
    [] status = 408 -> "Request timed out. Try again."
    [] status = 409 -> "Conflict - this resource was modified elsewhere."
    [] status = 413 -> "File is too large. Please use a smaller image."
    [] status = 422 -> "Invalid data. Please check your input."
    [] status = 429 -> "Too many requests. Slow down and try again."
    [] status = 500 -> "Something went wrong on our end."
    [] status = 502 -> "Server is temporarily unavailable."
    [] status = 503 -> "Service is under maintenance. Try again shortly."
    [] OTHER -> Absent

\* The server's text first: fallback ?? STATUS_MESSAGES[status] ?? ...
getErrorMessage_fallbackFirst(status, fallback) ==
  Coalesce(fallback,
           Coalesce(STATUS_MESSAGES(status), "An unexpected error occurred."))

\* STATUS_MESSAGES[status] ?? fallback ?? 'An unexpected error occurred.'
getErrorMessage(status, fallback) ==
  Coalesce(STATUS_MESSAGES(status),
           Coalesce(fallback, "An unexpected error occurred."))

\* What the network did with one request: no response at all (code says
\* why), or a response with a status, a status text and a body.
NoResponse(code) ==
  [response |-> FALSE, code |-> code, status |-> 0, statusText |-> "",
   data |-> NoData]

HttpResponse(status, statusText, data) ==
  [response |-> TRUE, code |-> "", status |-> status,
   statusText |-> statusText, data |-> data]

IsOk(raw) == raw.response /\ raw.status \in 200..299

\* An interceptor that reports a missing response as status -1.
Interceptor_minusOne(raw) ==
  IF ~raw.response
  THEN ApiError(-1, "Connection failed. Check your internet.")
  ELSE ApiErrorData(raw.status,
                    getErrorMessage(raw.status,
                                    Coalesce(raw.data.error, raw.data.message)),
                    raw.data)

\* The rejection handler of the response interceptor.
Interceptor(raw) ==
  IF ~raw.response
  THEN ApiError(0, IF raw.code = "ECONNABORTED"
                   THEN "Request timed out. Try again."
                   ELSE "Connection failed. Check your internet.")
  ELSE ApiErrorData(raw.status,
                    getErrorMessage(raw.status,
                                    Coalesce(raw.data.error, raw.data.message)),
                    raw.data)

\* The response interceptor: no response -> status 0, else the HTTP status.
InterceptError(status) ==
  IF status = 0 THEN Interceptor(NoResponse("ERR_NETWORK"))
  ELSE Interceptor(HttpResponse(status, "", NoData))

\* ------------------------------------------------------------- backend
\* What GET /api/inventory/{user_id} and GET /api/expiring-items/{user_id}
\* return for the items the server holds.
ServerView(key, srv) ==
  SelectSeq(ItemSeq, LAMBDA it :
    /\ it.id \in srv
    /\ it.user_id = key[2]
    /\ (key[1] = "expiring" => it.expires_in <= key[3]))

\* ---------------------------------------------------------- query cache
\* obs: "none" (no entry), "active" (an observer is mounted), "inactive".
\* fetch: "idle", "requested" (request sent), "responded" (response on its
\* way back, carried in payload).
NoPayload == [ok |-> FALSE, val |-> <<>>]

EmptyEntry ==
  [obs |-> "none", data |-> Undefined, inv |-> FALSE,
   fetch |-> "idle", payload |-> NoPayload]

\* query.cancel(): the in-flight fetch is dropped and its result ignored.
CancelQueries(c, p) ==
  [k \in Keys |->
    IF PartialMatchKey(k, p) /\ c[k].fetch # "idle"
    THEN [c[k] EXCEPT !.fetch = "idle", !.payload = NoPayload]
    ELSE c[k]]

getQueryData(c, key) == c[key].data

\* query.setData(): stores the value and clears the invalidated mark; an
\* undefined value is not written.
SetData(e, new) ==
  IF ~new.has THEN e
  ELSE [e EXCEPT !.data = new, !.inv = FALSE,
                 !.obs = IF @ = "none" THEN "inactive" ELSE @]

\* setQueryData with the updater's result (or a plain value) as new.
setQueryData(c, key, new) ==
  [c EXCEPT ![key] = SetData(@, new)]

\* old?.filter((item) => item.id !== itemId)
FilterOut(old, itemId) ==
  IF old.has THEN Some(SelectSeq(old.val, LAMBDA it : it.id # itemId))
  ELSE Undefined

\* setQueriesData with the filter updater of onMutate; only entries that
\* exist in the cache are visited.
setQueriesData(c, p, itemId) ==
  [k \in Keys |->
    IF PartialMatchKey(k, p) /\ c[k].obs # "none"
    THEN SetData(c[k], FilterOut(c[k].data, itemId))
    ELSE c[k]]

\* query.fetch(cancelRefetch): a fetch already running on an entry that has
\* no data yet is kept; otherwise a new request replaces it.
Refetch(e) ==
  IF e.fetch # "idle" /\ ~e.data.has THEN e
  ELSE [e EXCEPT !.fetch = "requested", !.payload = NoPayload]

\* Marks every matching entry invalidated and refetches the active ones.
invalidateQueries(c, p) ==
  [k \in Keys |->
    IF PartialMatchKey(k, p) /\ c[k].obs # "none"
    THEN IF c[k].obs = "active"
         THEN Refetch([c[k] EXCEPT !.inv = TRUE])
         ELSE [c[k] EXCEPT !.inv = TRUE]
    ELSE c[k]]

\* ------------------------------------------------ inventory endpoint
\* inventoryApi.removeItem: issues the removal request; a failure is the
\* transport's ApiError with the same status, 404 and 422 reworded.
removeItem(transportError) ==
  IF transportError.type # "ApiError" THEN transportError
  ELSE IF transportError.status = 404
  THEN ApiErrorData(404, "Item not found. It may have been deleted.",
                    transportError.data)
  ELSE IF transportError.status = 422
  THEN ApiErrorData(422, "Invalid input. Please check your input.",
                    transportError.data)
  ELSE transportError

\* -------------------------------------------------- useRemoveItem hooks
\* onMutate without the write to the expiring-items entries.
onMutate_listOnly(c, userId, itemId) ==
  [cache |-> setQueryData(c, inventoryKeys_all(userId),
                          FilterOut(c[inventoryKeys_all(userId)].data, itemId)),
   context |-> getQueryData(c, inventoryKeys_all(userId))]

\* onMutate after the two cancelQueries: snapshot, then the two writes.
onMutate(c, userId, itemId) ==
  LET previousAll == getQueryData(c, inventoryKeys_all(userId))
      c1 == setQueryData(c, inventoryKeys_all(userId),
                         FilterOut(c[inventoryKeys_all(userId)].data, itemId))
      c2 == setQueriesData(c1, <<"expiring", userId>>, itemId)
  IN [cache |-> c2, context |-> previousAll]

\* onError that leaves the cache as the optimistic write made it.
onError_noRestore(c, userId, context) == [cache |-> c, thrown |-> NoError]

\* onError that fails with an error of its own.
onError_throws(c, userId, context) ==
  [cache |-> IF context.has
             THEN setQueryData(c, inventoryKeys_all(userId), context)
             ELSE c,
   thrown |-> ApiError(500, "Rollback failed.")]

\* onError: restores previousAll when the context carries one; throws
\* nothing, so the mutation keeps the error of mutationFn.
onError(c, userId, context) ==
  [cache |-> IF context.has
             THEN setQueryData(c, inventoryKeys_all(userId), context)
             ELSE c,
   thrown |-> NoError]

\* onSettled that invalidates the list key only.
onSettled_listOnly(c, userId) ==
  invalidateQueries(c, inventoryKeys_all(userId))

onSettled(c, userId) ==
  invalidateQueries(invalidateQueries(c, inventoryKeys_all(userId)),
                    <<"expiring", userId>>)

\* --------------------------------------------------- recipes endpoint
MAX_RETRIES == 3

BASE_DELAY_MS == 1000

\* Values of Math.random() * 500, which lies in [0, 500).
Jitters == {0, 250, 499}

\* What one call of an asynchronous function can do: resolve with a value,
\* or reject with an ApiError of some status or with another exception.
OkOutcome(v) == [ok |-> TRUE, value |-> v, error |-> NoError]

ErrOutcome(e) == [ok |-> FALSE, value |-> <<>>, error |-> e]

\* get / post / put / patch / del: the decoded body of a 2xx response, else
\* the ApiError the response interceptor rejects with.
request(raw) ==
  IF IsOk(raw) THEN OkOutcome(raw.data) ELSE ErrOutcome(Interceptor(raw))

\* Elements of the arrays the backend sends.
SrvList == << [_id |-> "A", name |-> "milk"], [_id |-> "B", name |-> "eggs"] >>

OkBody(list) ==
  [json |-> TRUE, error |-> Absent, message |-> Absent, detail |-> Absent,
   list |-> list]

ErrBody(error, message, detail) ==
  [json |-> TRUE, error |-> error, message |-> message, detail |-> detail,
   list |-> Undefined]

\* 2xx responses: the array field missing, empty or filled, or a body that
\* is not a JSON object.
OkRaws ==
  {HttpResponse(200, "OK", OkBody(l)) :
     l \in {Undefined, Some(<<>>), Some(SrvList)}}
    \cup {HttpResponse(200, "OK", NoData)}

FailBodies ==
  {NoData}
    \cup {ErrBody(e, m, d) : e \in {Absent, "", "srv error"},
                             m \in {Absent, "srv message"},
                             d \in {Absent, "", "srv detail"}}

\* Statuses of failed responses; 418 has no entry in STATUS_MESSAGES.
HttpFailures == {400, 404, 418, 422, 429, 500, 503}

FailRaws ==
  {NoResponse(c) : c \in {"ECONNABORTED", "ERR_NETWORK"}}
    \cup {HttpResponse(st, t, b) :
            st \in HttpFailures, t \in {"", "Error"}, b \in FailBodies}

Raws == OkRaws \cup FailRaws

\* What the recipes request can meet.
RecipeRaws ==
  OkRaws
    \cup {NoResponse("ERR_NETWORK")}
    \cup {HttpResponse(st, "", b) :
            st \in {404, 422, 429, 500, 503},
            b \in {NoData, ErrBody("srv error", Absent, Absent)}}

\* x ?? [] for an optional array.
ListOr(l) == IF l.has THEN l.val ELSE <<>>

\* mapRecipe(raw, index); the id `generated-${index}` is kept as the index.
mapRecipe(raw, index) == [id |-> index, name |-> raw.name]

\* (response.recipes ?? []).map(mapRecipe)
mapRecipes(l) == [i \in 1..Len(ListOr(l)) |-> mapRecipe(ListOr(l)[i], i - 1)]

\* The function generate hands to withRetry.
RecipesFn(raw) ==
  IF request(raw).ok THEN OkOutcome(mapRecipes(request(raw).value.list))
  ELSE request(raw)

FnOutcomes ==
  {RecipesFn(raw) : raw \in RecipeRaws}
    \cup {ErrOutcome(RawError("TypeError",
                              "Cannot read properties of null"))}

isApiError(error) == error.type = "ApiError"

\* Retrying on 429 only.
isRetryable_only429(error) == isApiError(error) /\ error.status = 429

\* Retrying on every ApiError.
isRetryable_anyApiError(error) == isApiError(error)

\* Retrying on 500 as well.
isRetryable_also500(error) ==
  isApiError(error) /\ error.status \in {429, 500, 503}

isRetryable(error) ==
  isApiError(error) /\ (error.status = 429 \/ error.status = 503)

\* A delay that grows linearly.
BackoffDelay_linear(attempt, jitter) == BASE_DELAY_MS * (attempt + 1) + jitter

\* BASE_DELAY_MS * 2 ** attempt + Math.random() * 500
BackoffDelay(attempt, jitter) == BASE_DELAY_MS * 2 ^ attempt + jitter

\* ------------------------------------------------------ endpoint calls
\* What an endpoint function does for its caller, and how many requests it
\* sent to get there.
Returned(v, n) == [ok |-> TRUE, value |-> v, error |-> NoError, requests |-> n]

Thrown(e, n) == [ok |-> FALSE, value |-> <<>>, error |-> e, requests |-> n]

NoResult == [ok |-> FALSE, value |-> <<>>, error |-> NoError, requests |-> 0]

\* generate that rewords a 429 without handing on error.data.
generate_dropsPayload(w, n) ==
  IF w.ok THEN Returned(w.value, n)
  ELSE IF isApiError(w.error) /\ w.error.status = 429
  THEN Thrown(ApiError(429,
         "Recipe generation is rate-limited. Please wait a moment and try again."),
         n)
  ELSE IF isApiError(w.error) /\ w.error.status = 404
  THEN Returned(<<>>, n)
  ELSE Thrown(w.error, n)

\* generate, given what withRetry did after n calls of fn.
generate(w, n) ==
  IF w.ok THEN Returned(w.value, n)
  ELSE IF isApiError(w.error) /\ w.error.status = 429
  THEN Thrown(ApiErrorData(429,
         "Recipe generation is rate-limited. Please wait a moment and try again.",
         w.error.data), n)
  ELSE IF isApiError(w.error) /\ w.error.status = 404
  THEN Returned(<<>>, n)
  ELSE Thrown(w.error, n)

getByIngredients == Returned(<<>>, 0)

mapItem(raw) == [id |-> raw._id, item_name |-> raw.name]

mapItems(l) == [i \in 1..Len(ListOr(l)) |-> mapItem(ListOr(l)[i])]

\* getAll without the recovery of a 404.
getAll_noRecover(raw) ==
  IF request(raw).ok THEN Returned(mapItems(request(raw).value.list), 1)
  ELSE Thrown(request(raw).error, 1)

getAll(raw) ==
  IF request(raw).ok THEN Returned(mapItems(request(raw).value.list), 1)
  ELSE IF isApiError(request(raw).error) /\ request(raw).error.status = 404
  THEN Returned(<<>>, 1)
  ELSE Thrown(request(raw).error, 1)

\* getExpiring that wraps every failure in an error of its own.
getExpiring_wraps(raw) ==
  IF request(raw).ok THEN Returned(mapItems(request(raw).value.list), 1)
  ELSE IF isApiError(request(raw).error) /\ request(raw).error.status = 404
  THEN Returned(<<>>, 1)
  ELSE Thrown(ApiError(request(raw).error.status,
                       "Failed to load expiring items."), 1)

getExpiring(raw) ==
  IF request(raw).ok THEN Returned(mapItems(request(raw).value.list), 1)
  ELSE IF isApiError(request(raw).error) /\ request(raw).error.status = 404
  THEN Returned(<<>>, 1)
  ELSE Thrown(request(raw).error, 1)

addItem ==
  Thrown(ApiError(501,
           "Adding items manually is not yet supported by the backend."), 0)

\* updateItemStatus that rewords without handing on error.data.
updateItemStatus_dropsPayload(raw) ==
  IF request(raw).ok THEN Returned(request(raw).value, 1)
  ELSE IF isApiError(request(raw).error) /\ request(raw).error.status = 404
  THEN Thrown(ApiError(404, "Item not found. It may have been deleted."), 1)
  ELSE IF isApiError(request(raw).error) /\ request(raw).error.status = 400
  THEN Thrown(ApiError(400,
                "Invalid status. Use: active, consumed, or wasted."), 1)
  ELSE Thrown(request(raw).error, 1)

updateItemStatus(raw) ==
  IF request(raw).ok THEN Returned(request(raw).value, 1)
  ELSE IF isApiError(request(raw).error) /\ request(raw).error.status = 404
  THEN Thrown(ApiErrorData(404, "Item not found. It may have been deleted.",
                           request(raw).error.data), 1)
  ELSE IF isApiError(request(raw).error) /\ request(raw).error.status = 400
  THEN Thrown(ApiErrorData(400,
                "Invalid status. Use: active, consumed, or wasted.",
                request(raw).error.data), 1)
  ELSE Thrown(request(raw).error, 1)

deleteItem ==
  Thrown(ApiError(501,
    "Deleting items is not yet supported. Mark as consumed or wasted instead."),
    0)

\* The CRUD variant of the inventory endpoints; the item of a response is
\* carried in the body's array field.
crud_updateItem(raw) ==
  LET r == IF request(raw).ok /\ ~request(raw).value.list.has
           THEN ErrOutcome(ApiError(500,
                             "Server returned no data for updated item."))
           ELSE request(raw)
  IN IF r.ok THEN Returned(r.value.list.val, 1)
     ELSE IF isApiError(r.error) /\ r.error.status = 404
     THEN Thrown(ApiErrorData(404, "Item not found. It may have been deleted.",
                              r.error.data), 1)
     ELSE IF isApiError(r.error) /\ r.error.status = 422
     THEN Thrown(ApiErrorData(422,
                   "Invalid update data. Please check your input.",
                   r.error.data), 1)
     ELSE Thrown(r.error, 1)

crud_deleteItem(raw) ==
  IF request(raw).ok THEN Returned(<<>>, 1)
  ELSE IF isApiError(request(raw).error) /\ request(raw).error.status = 404
  THEN Thrown(ApiErrorData(404,
                "Item not found. It may have already been removed.",
                request(raw).error.data), 1)
  ELSE Thrown(request(raw).error, 1)

getScanHistory == Returned(<<>>, 0)

\* upload: native fetch, which rejects with a TypeError when there is no
\* response; response.json() rejects with a SyntaxError on a body that is
\* not JSON.
upload(raw) ==
  IF ~raw.response THEN Thrown(RawError("TypeError", "Failed to fetch"), 1)
  ELSE IF ~IsOk(raw)
  THEN Thrown(ApiErrorData(raw.status,
                Coalesce(raw.data.detail,
                         Coalesce(raw.data.message, raw.statusText)),
                raw.data), 1)
  ELSE IF raw.data.json THEN Returned(raw.data, 1)
  ELSE Thrown(RawError("SyntaxError", "Unexpected token in JSON"), 1)

\* ------------------------------------------------------ scan endpoint
MAX_FILE_SIZE == 10 * 1024 * 1024

ALLOWED_TYPES ==
  {"image/jpeg", "image/png", "image/webp", "image/heic", "image/heif"}

\* A File: its name, MIME type and size in bytes.
File(name, type, size) == [name |-> name, type |-> type, size |-> size]

FileTypes == {"image/jpeg", "image/heic", "image/gif", "text/plain", ""}

\* Sizes around the skip threshold of the compression (500 KB) and around
\* the 10 MB limit.
FileSizes ==
  {300 * 1024, 2 * 1024 * 1024, MAX_FILE_SIZE - 1, MAX_FILE_SIZE,
   MAX_FILE_SIZE + 1, 12 * 1024 * 1024}

Files == {File("photo", t, n) : t \in FileTypes, n \in FileSizes}

\* (bytes / (1024 * 1024)).toFixed(1)
SizeMB(bytes) ==
  LET tenths == (bytes * 20 + 1024 * 1024) \div (2 * 1024 * 1024)
  IN ToString(tenths \div 10) \o "." \o ToString(tenths % 10)

\* validateImageFile that tests the size before the type.
validateImageFile_sizeFirst(file) ==
  IF file.size > MAX_FILE_SIZE
  THEN ApiError(413, "File is too large (" \o SizeMB(file.size)
                       \o " MB). Maximum size is 10 MB.")
  ELSE IF file.type \notin ALLOWED_TYPES
  THEN ApiError(422, "Invalid file format \"" \o file.type
                       \o "\". Accepted: JPEG, PNG, WebP, HEIC.")
  ELSE NoError

\* validateImageFile: the ApiError it throws, NoError when it returns.
validateImageFile(file) ==
  IF file.type \notin ALLOWED_TYPES
  THEN ApiError(422, "Invalid file format \"" \o file.type
                       \o "\". Accepted: JPEG, PNG, WebP, HEIC.")
  ELSE IF file.size > MAX_FILE_SIZE
  THEN ApiError(413, "File is too large (" \o SizeMB(file.size)
                       \o " MB). Maximum size is 10 MB.")
  ELSE NoError

\* scanApi.uploadImage
uploadImage(file, raw) ==
  IF validateImageFile(file) # NoError THEN Thrown(validateImageFile(file), 0)
  ELSE IF upload(raw).ok \/ ~isApiError(upload(raw).error) THEN upload(raw)
  ELSE IF upload(raw).error.status = 413
  THEN Thrown(ApiErrorData(413,
                "File is too large. Please use a smaller image.",
                upload(raw).error.data), 1)
  ELSE IF upload(raw).error.status = 422
  THEN Thrown(ApiErrorData(422,
                "Image could not be processed. Try a different photo.",
                upload(raw).error.data), 1)
  ELSE IF upload(raw).error.status = 500
  THEN Thrown(ApiErrorData(500, "Detection failed. Please try again.",
                           upload(raw).error.data), 1)
  ELSE upload(raw)

NoFile == File("", "", 0)

\* ----------------------------------------------------------- auth token
\* What localStorage can hold under AUTH_TOKEN_KEY; Absent is no entry.
Tokens == {"", "t1", "t2"}

\* The request interceptor: Authorization is set when the token is truthy.
AuthorizationHeader(tok) ==
  IF tok # Absent /\ tok # "" THEN "Bearer " \o tok ELSE Absent

\* Statuses of the answers to authenticated traffic; 0 is no response.
AuthStatuses == {0, 200, 401, 500}

\* ------------------------------------------- ScanPage and ImageUpload
\* formatFileSize
formatFileSize(bytes) ==
  IF bytes < 1024 THEN ToString(bytes) \o " B"
  ELSE IF bytes < 1024 * 1024
  THEN LET tenths == (bytes * 20 + 1024) \div (2 * 1024)
       IN ToString(tenths \div 10) \o "." \o ToString(tenths % 10) \o " KB"
  ELSE SizeMB(bytes) \o " MB"

\* file.type.startsWith('image/') for the types of FileTypes.
IsImageType(type) == type \in {"image/jpeg", "image/heic", "image/gif"}

\* validateFile of ImageUpload: the error text, Absent for null.
validateFile(file, maxSizeMB) ==
  IF ~IsImageType(file.type)
  THEN "\"" \o file.name
         \o "\" is not an image. Please upload a JPG, PNG, or WebP file."
  ELSE IF file.size > maxSizeMB * 1024 * 1024
  THEN "File is too large (" \o formatFileSize(file.size)
         \o "). Maximum size is " \o ToString(maxSizeMB) \o " MB."
  ELSE Absent

\* What the browser does with the image: whether it decodes, its width,
\* whether the canvas gives a 2D context, and the blob toBlob produces
\* (Undefined for null, else its size: the encoder decides).
ImageEnv(loads, width, ctx, blob) ==
  [loads |-> loads, width |-> width, ctx |-> ctx, blob |-> blob]

ImageEnvs ==
  {ImageEnv(FALSE, 0, FALSE, Undefined)}
    \cup {ImageEnv(TRUE, w, FALSE, Undefined) : w \in {800, 2400}}
    \cup {ImageEnv(TRUE, w, TRUE, b) :
            w \in {800, 2400},
            b \in {Undefined, Some(200 * 1024), Some(1024 * 1024),
                   Some(3 * 1024 * 1024)}}

\* compressImage(file) with maxWidth 1920: the promise resolves with a file
\* or rejects.
compressImage(file, env) ==
  IF ~env.loads THEN [ok |-> FALSE, file |-> NoFile]
  ELSE IF env.width <= 1920 /\ file.size < 500 * 1024
  THEN [ok |-> TRUE, file |-> file]
  ELSE IF ~env.ctx THEN [ok |-> TRUE, file |-> file]
  ELSE IF ~env.blob.has THEN [ok |-> TRUE, file |-> file]
  ELSE [ok |-> TRUE, file |-> File(file.name, "image/jpeg", env.blob.val)]

\* mapDetectionToItem(det, index); the id `scan-${index}` is kept as index.
mapDetectionToItem(det, index) == [id |-> index, item_name |-> det.name]

\* What the scan request can meet.
ScanRaws ==
  OkRaws
    \cup {NoResponse("ERR_NETWORK")}
    \cup {HttpResponse(st, "Error", b) :
            st \in {400, 408, 500},
            b \in {NoData, ErrBody(Absent, Absent, "srv detail")}}

\* uploadImage of ScanPage: the mapped items, or what was thrown.
pageUploadImage(file, raw) ==
  IF ~uploadImage(file, raw).ok THEN uploadImage(file, raw)
  ELSE IF ~uploadImage(file, raw).value.list.has
  THEN Thrown(RawError("TypeError", "Cannot read properties of undefined"),
              1)
  ELSE Returned([i \in 1..Len(uploadImage(file, raw).value.list.val) |->
                   mapDetectionToItem(
                     uploadImage(file, raw).value.list.val[i], i - 1)], 1)

NoItemsText ==
  "We couldn't find any food items. Try better lighting or a different angle."

\* The detail handleUpload extracts from an ApiError.
ErrorDetailOf(error) ==
  IF error.data.json /\ error.data.detail # Absent THEN error.data.detail
  ELSE error.message

\* The catch block of handleUpload (ScanPage.tsx): errorType and
\* errorDetail after it; keep is the errorDetail before it.
CatchUpload(error, keep) ==
  IF ~isApiError(error) THEN [errorType |-> "network", errorDetail |-> keep]
  ELSE IF error.status = 400
  THEN [errorType |-> "no_items", errorDetail |-> ErrorDetailOf(error)]
  ELSE IF error.status = 408
  THEN [errorType |-> "no_items",
        errorDetail |->
          IF ErrorDetailOf(error) # "" THEN ErrorDetailOf(error)
          ELSE "Processing took too long. The image may be invalid. Try a clearer photo."]
  ELSE IF error.status = 0
  THEN [errorType |-> "network", errorDetail |-> keep]
  ELSE [errorType |-> "server", errorDetail |-> ErrorDetailOf(error)]

\* The catch block of the variant with upload progress: no 408 branch.
CatchUploadProgress(error, keep) ==
  IF ~isApiError(error) THEN [errorType |-> "network", errorDetail |-> keep]
  ELSE IF error.status = 400
  THEN [errorType |-> "no_items", errorDetail |-> ErrorDetailOf(error)]
  ELSE IF error.status = 0
  THEN [errorType |-> "network", errorDetail |-> keep]
  ELSE [errorType |-> "server", errorDetail |-> ErrorDetailOf(error)]

\* The user id ScanPage scans for ('demo_user').
ScanUser == HookUser

\* What a successful scan invalidates on each code path.
InvalidateAfterScan(c, v) ==
  IF v = "ScanPage"
  THEN invalidateQueries(invalidateQueries(c, <<"inventory", ScanUser>>),
                         <<"expiring", ScanUser>>)
  ELSE IF v = "useScanImage"
  THEN invalidateQueries(c, inventoryKeys_all(ScanUser))
  ELSE c

\* useState initial values of ScanPage; mounted is mountedRef.current.
PageInit ==
  [status |-> "idle", detectedItems |-> <<>>, errorType |-> "network",
   errorDetail |-> Absent, progress |-> 0, mounted |-> TRUE]

\* useState initial values of ImageUpload.
IuInit ==
  [state |-> "empty", preview |-> Absent, fileName |-> "", fileSize |-> 0,
   originalSize |-> 0, error |-> ""]

\* No file is being processed or uploaded.
\* A hook call: its position, the hook, the days argument, the query key,
\* the query parameters of its request, what the request met and how the
\* endpoint function settled.
Hk(pc, op, days, key, params, raw, res) ==
  [pc |-> pc, op |-> op, days |-> days, key |-> key, params |-> params,
   raw |-> raw, res |-> res]

NoParams == [user_id |-> "", days |-> 0]

HkInit ==
  Hk("idle", "none", Undefined, <<>>, NoParams, NoResponse(""), NoResult)

\* Longest VITE_API_URL tried, in characters.
MaxUrlLen == 3

\* The environment before env.ts is evaluated: VITE_API_URL (its characters,
\* Undefined when not set), VITE_ENV (Absent when not set), the exported
\* env and the message of the error thrown.
NoEnv == [API_URL |-> <<>>, ENV |-> "", IS_DEV |-> FALSE, IS_PROD |-> FALSE]

Cfg(pc, apiUrl, envValue, env, message) ==
  [pc |-> pc, apiUrl |-> apiUrl, envValue |-> envValue, env |-> env,
   message |-> message]

CfgInit == Cfg("idle", Undefined, Absent, NoEnv, "")

\* One run of processFile: its position, the file selected, the file after
\* compression and what the upload request met.
Job(pc, file, processed, raw) ==
  [pc |-> pc, file |-> file, processed |-> processed, raw |-> raw]

JobsInit == <<>>

UpInit ==
  [pc |-> "idle", file |-> NoFile, processed |-> NoFile,
   compress |-> "none", raw |-> NoResponse(""), clock |-> 0,
   requests |-> 0, scans |-> 0, succeeded |-> FALSE]

\* ------------------------------------------------------------- state
VARIABLES
  server,     \* ids of the items the backend holds
  cache,      \* the query cache, one entry per key
  mpc,        \* position of the removal mutation
  mItem,      \* itemId passed to mutate()
  mContext,   \* what onMutate returned (previousAll)
  mBefore,    \* data of every entry just before the optimistic write
  mResp,      \* outcome of the removal request
  mError,     \* error the mutation reports to its caller
  steps,      \* protocol steps of the removal, in order
  nEv,        \* mounts, unmounts and timer/focus refetches so far
  rpc,        \* position of withRetry: "idle", "call", "wait", "returned", "thrown"
  attempt,    \* loop variable of withRetry
  lastError,  \* lastError of withRetry
  calls,      \* outcome of every call of fn so far
  delays,     \* every backoff delay waited so far
  rResult,    \* value withRetry returned
  rError,     \* error withRetry threw
  gen,        \* what generate did for its caller
  apc,        \* position of a single endpoint call: "idle", "start", "done"
  aOp,        \* the endpoint function called
  aRaw,       \* what the network does with the call's request
  aFile,      \* the file handed to uploadImage
  aRes,       \* what the endpoint function did for its caller
  token,      \* the auth token in localStorage
  events,     \* requests sent, answers received and setAuthToken calls, in order
  variant,    \* the code path that scans: "ScanPage", "ScanPageProgress", "useScanImage"
  page,       \* state of the scanning component
  iu,         \* state of ImageUpload
  up,         \* the file being processed and its upload request
  hk,         \* the inventory hook that was called, its key and its request
  cfg,        \* the environment given to config/env.ts and what it exports
  jobs        \* processFile runs of ImageUpload that may overlap

vars ==
  <<server, cache, mpc, mItem, mContext, mBefore, mResp, mError, steps, nEv,
    rpc, attempt, lastError, calls, delays, rResult, rError, gen,
    apc, aOp, aRaw, aFile, aRes, token, events, variant, page, iu, up,
    hk, cfg, jobs>>

retryVars == <<rpc, attempt, lastError, calls, delays, rResult, rError, gen>>

callVars == <<apc, aOp, aRaw, aFile, aRes>>

authVars == <<token, events>>

scanVars == <<variant, page, iu, up>>

restVars == <<hk, cfg, jobs>>

\* No hook of the later sections has been called, env.ts has not been
\* evaluated with a chosen environment, no processFile runs.
RestQuiet ==
  /\ hk = HkInit
  /\ cfg = CfgInit
  /\ jobs = JobsInit

cacheVars ==
  <<server, cache, mpc, mItem, mContext, mBefore, mResp, mError, steps, nEv>>

mutVars == <<mpc, mItem, mContext, mBefore, mResp, mError, steps>>

NoResp == [done |-> FALSE, ok |-> FALSE, error |-> NoError]

\* No handler of the client is in the middle of its promise chain.
ClientIdle == mpc \in {"idle", "inflight", "answered", "settled"}

\* An entry whose first fetch has completed.
LoadedEntry(k, obs) ==
  [obs |-> obs, data |-> Some(ServerView(k, ItemIds)), inv |-> FALSE,
   fetch |-> "idle", payload |-> NoPayload]

\* The application is up for HookUser: each of that user's queries is either
\* not in the cache yet or loaded by a mounted component; the list of the
\* other user, if cached, is left from an earlier session without observer.
Init ==
  /\ server = ItemIds
  /\ cache \in [Keys -> {EmptyEntry}
                   \cup {LoadedEntry(k, o) : k \in Keys,
                                             o \in {"active", "inactive"}}]
  /\ \A k \in Keys :
       cache[k] \in {EmptyEntry,
                     LoadedEntry(k, IF k[2] = HookUser THEN "active"
                                                       ELSE "inactive")}
  /\ mpc = "idle"
  /\ mItem = "B"
  /\ mContext = Undefined
  /\ mBefore = [k \in Keys |-> Undefined]
  /\ mResp = NoResp
  /\ mError = NoError
  /\ steps = <<>>
  /\ nEv = 0
  /\ rpc = "idle"
  /\ attempt = 0
  /\ lastError = NoError
  /\ calls = <<>>
  /\ delays = <<>>
  /\ rResult = <<>>
  /\ rError = NoError
  /\ gen = NoResult
  /\ apc = "idle"
  /\ aOp = "none"
  /\ aRaw = NoResponse("")
  /\ aFile = File("", "", 0)
  /\ aRes = NoResult
  /\ token = Absent
  /\ events = <<>>
  /\ variant = "ScanPage"
  /\ page = PageInit
  /\ iu = IuInit
  /\ up = UpInit
  /\ RestQuiet

\* ------------------------------------------------------------ queries
\* A component using useInventory / useExpiringItems mounts: the entry is
\* created and fetched when it has no data or is invalidated.
Mount(k) ==
  /\ ClientIdle
  /\ nEv < MaxEvents
  /\ nEv' = nEv + 1
  /\ cache[k].obs # "active"
  /\ cache' = [cache EXCEPT ![k] =
        IF (~@.data.has \/ @.inv) /\ @.fetch = "idle"
        THEN [@ EXCEPT !.obs = "active", !.fetch = "requested"]
        ELSE [@ EXCEPT !.obs = "active"]]
  /\ UNCHANGED <<server, mutVars, retryVars, callVars, authVars, scanVars,
                 restVars>>

Unmount(k) ==
  /\ ClientIdle
  /\ nEv < MaxEvents
  /\ nEv' = nEv + 1
  /\ cache[k].obs = "active"
  /\ cache' = [cache EXCEPT ![k].obs = "inactive"]
  /\ UNCHANGED <<server, mutVars, retryVars, callVars, authVars, scanVars,
                 restVars>>

\* Window focus on stale data, or the 5-minute refetchInterval.
StartFetch(k) ==
  /\ ClientIdle
  /\ nEv < MaxEvents
  /\ nEv' = nEv + 1
  /\ cache[k].obs = "active"
  /\ cache[k].fetch = "idle"
  /\ cache' = [cache EXCEPT ![k].fetch = "requested"]
  /\ UNCHANGED <<server, mutVars, retryVars, callVars, authVars, scanVars,
                 restVars>>

\* The backend answers a list request from what it holds at that moment,
\* or the request fails.
ServerAnswerFetch(k) ==
  /\ cache[k].fetch = "requested"
  /\ \E ok \in BOOLEAN :
       cache' = [cache EXCEPT ![k].fetch = "responded",
                   ![k].payload = IF ok
                     THEN [ok |-> TRUE, val |-> ServerView(k, server)]
                     ELSE NoPayload]
  /\ UNCHANGED <<server, mutVars, nEv, retryVars, callVars, authVars, scanVars,
                 restVars>>

\* The response reaches the client: a success is stored, a failure leaves
\* the data as it was.
DeliverFetch(k) ==
  /\ ClientIdle
  /\ cache[k].fetch = "responded"
  /\ cache' = [cache EXCEPT ![k] =
        IF @.payload.ok
        THEN [@ EXCEPT !.data = Some(cache[k].payload.val), !.inv = FALSE,
                       !.fetch = "idle", !.payload = NoPayload]
        ELSE [@ EXCEPT !.fetch = "idle", !.payload = NoPayload]]
  /\ UNCHANGED <<server, mutVars, nEv, retryVars, callVars, authVars, scanVars,
                 restVars>>

\* ----------------------------------------------------- removal mutation
\* mutate(itemId): onMutate starts with the two cancelQueries.
Mutate(itemId) ==
  /\ mpc = "idle"
  /\ mpc' = "cancelled"
  /\ mItem' = itemId
  /\ cache' = CancelQueries(CancelQueries(cache, inventoryKeys_all(HookUser)),
                            <<"expiring", HookUser>>)
  /\ steps' = <<"cancel">>
  /\ UNCHANGED <<server, mContext, mBefore, mResp, mError, nEv, retryVars,
                 callVars, authVars, scanVars, restVars>>

\* onMutate continues: snapshot, then the optimistic writes.
OnMutateWrite ==
  /\ mpc = "cancelled"
  /\ mpc' = "written"
  /\ mBefore' = [k \in Keys |-> cache[k].data]
  /\ mContext' = onMutate(cache, HookUser, mItem).context
  /\ cache' = onMutate(cache, HookUser, mItem).cache
  /\ steps' = steps \o <<"snapshot", "write">>
  /\ UNCHANGED <<server, mItem, mResp, mError, nEv, retryVars, callVars,
                 authVars, scanVars, restVars>>

\* mutationFn started without waiting for onMutate to finish.
MutationFn_beforeWrite ==
  /\ mpc = "cancelled"
  /\ mpc' = "inflight"
  /\ steps' = Append(steps, "call")
  /\ UNCHANGED <<server, cache, mItem, mContext, mBefore, mResp, mError, nEv,
                 retryVars, callVars, authVars, scanVars, restVars>>

\* mutationFn: the removal request leaves the client.
MutationFn ==
  /\ mpc = "written"
  /\ mpc' = "inflight"
  /\ steps' = Append(steps, "call")
  /\ UNCHANGED <<server, cache, mItem, mContext, mBefore, mResp, mError, nEv,
                 retryVars, callVars, authVars, scanVars, restVars>>

\* The backend handles the removal: it deletes the item, or fails.
ServerHandleRemove ==
  /\ mpc = "inflight"
  /\ mpc' = "answered"
  /\ \/ /\ mItem \in server
        /\ server' = server \ {mItem}
        /\ mResp' = [done |-> TRUE, ok |-> TRUE, error |-> NoError]
     \/ /\ \E status \in FailureStatuses :
             mResp' = [done |-> TRUE, ok |-> FALSE,
                       error |-> removeItem(InterceptError(status))]
        /\ server' = server
  /\ UNCHANGED <<cache, mItem, mContext, mBefore, mError, steps, nEv,
                 retryVars, callVars, authVars, scanVars, restVars>>

\* The response reaches the client; a success has no onSuccess handler.
OnSuccess ==
  /\ mpc = "answered"
  /\ mResp.ok
  /\ mpc' = "succeeded"
  /\ UNCHANGED <<server, cache, mItem, mContext, mBefore, mResp, mError, steps,
                 nEv, retryVars, callVars, authVars, scanVars, restVars>>

\* The failure reaches the client: onError runs, and the mutation reports
\* the error of mutationFn unless onError itself throws.
OnError ==
  /\ mpc = "answered"
  /\ ~mResp.ok
  /\ mpc' = "rolledback"
  /\ cache' = onError(cache, HookUser, mContext).cache
  /\ mError' = IF onError(cache, HookUser, mContext).thrown # NoError
               THEN onError(cache, HookUser, mContext).thrown
               ELSE mResp.error
  /\ steps' = Append(steps, "rollback")
  /\ UNCHANGED <<server, mItem, mContext, mBefore, mResp, nEv, retryVars,
                 callVars, authVars, scanVars, restVars>>

OnSettled ==
  /\ mpc \in {"succeeded", "rolledback"}
  /\ mpc' = "settled"
  /\ cache' = onSettled(cache, HookUser)
  /\ steps' = Append(steps, "invalidate")
  /\ UNCHANGED <<server, mItem, mContext, mBefore, mResp, mError, nEv,
                 retryVars, callVars, authVars, scanVars, restVars>>

HookKeys == {k \in Keys : k[2] = HookUser}

Next ==
  \/ \E k \in HookKeys : Mount(k)
  \/ \E k \in HookKeys : Unmount(k)
  \/ \E k \in HookKeys : StartFetch(k)
  \/ \E k \in Keys : ServerAnswerFetch(k)
  \/ \E k \in Keys : DeliverFetch(k)
  \/ \E id \in RemovableIds : Mutate(id)
  \/ OnMutateWrite
  \/ MutationFn
  \/ ServerHandleRemove
  \/ OnSuccess
  \/ OnError
  \/ OnSettled

Spec == Init /\ [][Next]_vars

\* --------------------------------------------------------- withRetry
\* withRetry(fn) has been called on a fresh page.
RetryInit ==
  /\ server = ItemIds
  /\ cache = [k \in Keys |-> EmptyEntry]
  /\ mpc = "idle"
  /\ mItem = "B"
  /\ mContext = Undefined
  /\ mBefore = [k \in Keys |-> Undefined]
  /\ mResp = NoResp
  /\ mError = NoError
  /\ steps = <<>>
  /\ nEv = 0
  /\ rpc = "call"
  /\ attempt = 0
  /\ lastError = NoError
  /\ calls = <<>>
  /\ delays = <<>>
  /\ rResult = <<>>
  /\ rError = NoError
  /\ gen = NoResult
  /\ apc = "idle"
  /\ aOp = "none"
  /\ aRaw = NoResponse("")
  /\ aFile = File("", "", 0)
  /\ aRes = NoResult
  /\ token = Absent
  /\ events = <<>>
  /\ variant = "ScanPage"
  /\ page = PageInit
  /\ iu = IuInit
  /\ up = UpInit
  /\ RestQuiet

\* One iteration of the loop up to its return, throw or setTimeout; after
\* the loop, throw lastError.
RetryAttempt ==
  /\ rpc = "call"
  /\ IF attempt <= MAX_RETRIES
     THEN \E out \in FnOutcomes :
            /\ calls' = Append(calls, out)
            /\ IF out.ok
               THEN /\ rpc' = "returned"
                    /\ rResult' = out.value
                    /\ UNCHANGED <<lastError, delays, rError, restVars>>
               ELSE /\ lastError' = out.error
                    /\ IF ~isRetryable(out.error) \/ attempt = MAX_RETRIES
                       THEN /\ rpc' = "thrown"
                            /\ rError' = out.error
                            /\ UNCHANGED delays
                       ELSE /\ rpc' = "wait"
                            /\ \E jitter \in Jitters :
                                 delays' = Append(delays,
                                                  BackoffDelay(attempt, jitter))
                            /\ UNCHANGED rError
                    /\ UNCHANGED rResult
     ELSE /\ rpc' = "thrown"
          /\ rError' = lastError
          /\ UNCHANGED <<lastError, calls, delays, rResult, restVars>>
  /\ UNCHANGED <<attempt, gen, cacheVars, callVars, authVars, scanVars,
                 restVars>>

\* The timer fires; the loop increments attempt and goes round.
RetryWake ==
  /\ rpc = "wait"
  /\ rpc' = "call"
  /\ attempt' = attempt + 1
  /\ UNCHANGED <<lastError, calls, delays, rResult, rError, gen, cacheVars,
                 callVars, authVars, scanVars,
                 restVars>>

\* withRetry has settled; generate returns or runs its catch block.
GenerateSettle ==
  /\ rpc \in {"returned", "thrown"}
  /\ gen = NoResult
  /\ gen' = generate([ok |-> rpc = "returned", value |-> rResult,
                      error |-> rError], Len(calls))
  /\ UNCHANGED <<rpc, attempt, lastError, calls, delays, rResult, rError,
                 cacheVars, callVars, authVars, scanVars,
                 restVars>>

RetryNext ==
  \/ RetryAttempt
  \/ RetryWake
  \/ GenerateSettle

SpecRetry == RetryInit /\ [][RetryNext]_vars

\* fn settles (the request has a timeout) and the timer fires.
SpecRetryFair ==
  /\ SpecRetry
  /\ WF_vars(RetryAttempt)
  /\ WF_vars(RetryWake)
  /\ WF_vars(GenerateSettle)

\* ----------------------------------------------------- endpoint calls
\* One endpoint function is about to be called, and the network will do
\* aRaw with the request it sends.
CallInit ==
  /\ server = ItemIds
  /\ cache = [k \in Keys |-> EmptyEntry]
  /\ mpc = "idle"
  /\ mItem = "B"
  /\ mContext = Undefined
  /\ mBefore = [k \in Keys |-> Undefined]
  /\ mResp = NoResp
  /\ mError = NoError
  /\ steps = <<>>
  /\ nEv = 0
  /\ rpc = "idle"
  /\ attempt = 0
  /\ lastError = NoError
  /\ calls = <<>>
  /\ delays = <<>>
  /\ rResult = <<>>
  /\ rError = NoError
  /\ gen = NoResult
  /\ apc = "start"
  /\ aOp = "none"
  /\ aRaw \in Raws
  /\ aFile = File("", "", 0)
  /\ aRes = NoResult
  /\ token = Absent
  /\ events = <<>>
  /\ variant = "ScanPage"
  /\ page = PageInit
  /\ iu = IuInit
  /\ up = UpInit
  /\ RestQuiet

Call(op, res) ==
  /\ apc = "start"
  /\ apc' = "done"
  /\ aOp' = op
  /\ aRes' = res
  /\ UNCHANGED <<aRaw, aFile, cacheVars, retryVars, authVars, scanVars,
                 restVars>>

CallGetAll == Call("getAll", getAll(aRaw))

CallGetExpiring == Call("getExpiring", getExpiring(aRaw))

CallAddItem == Call("addItem", addItem)

CallUpdateItemStatus == Call("updateItemStatus", updateItemStatus(aRaw))

CallDeleteItem == Call("deleteItem", deleteItem)

CallCrudUpdateItem == Call("crud_updateItem", crud_updateItem(aRaw))

CallCrudDeleteItem == Call("crud_deleteItem", crud_deleteItem(aRaw))

CallGetScanHistory == Call("getScanHistory", getScanHistory)

CallGetByIngredients == Call("getByIngredients", getByIngredients)

CallRequest ==
  Call("request", [ok |-> request(aRaw).ok, value |-> request(aRaw).value,
                   error |-> request(aRaw).error, requests |-> 1])

CallUpload == Call("upload", upload(aRaw))

CallUploadImage ==
  \E file \in Files :
    /\ apc = "start"
    /\ apc' = "done"
    /\ aOp' = "uploadImage"
    /\ aFile' = file
    /\ aRes' = uploadImage(file, aRaw)
    /\ UNCHANGED <<aRaw, cacheVars, retryVars, authVars, scanVars, restVars>>

CallNext ==
  \/ CallGetAll
  \/ CallGetExpiring
  \/ CallAddItem
  \/ CallUpdateItemStatus
  \/ CallDeleteItem
  \/ CallCrudUpdateItem
  \/ CallCrudDeleteItem
  \/ CallGetScanHistory
  \/ CallGetByIngredients
  \/ CallRequest
  \/ CallUpload
  \/ CallUploadImage

\* Every endpoint function: a single call, or generate with its retries.
EndpointsInit == CallInit \/ RetryInit

EndpointsNext == CallNext \/ RetryNext

SpecEndpoints == EndpointsInit /\ [][EndpointsNext]_vars

\* ------------------------------------------------------- auth token
\* The inventory hooks have done nothing yet.
CacheQuiet ==
  /\ server = ItemIds
  /\ mpc = "idle"
  /\ mItem = "B"
  /\ mContext = Undefined
  /\ mBefore = [k \in Keys |-> Undefined]
  /\ mResp = NoResp
  /\ mError = NoError
  /\ steps = <<>>
  /\ nEv = 0

\* Neither generate nor a single endpoint call is under way.
EndpointsQuiet ==
  /\ rpc = "idle"
  /\ attempt = 0
  /\ lastError = NoError
  /\ calls = <<>>
  /\ delays = <<>>
  /\ rResult = <<>>
  /\ rError = NoError
  /\ gen = NoResult
  /\ apc = "idle"
  /\ aOp = "none"
  /\ aRaw = NoResponse("")
  /\ aFile = NoFile
  /\ aRes = NoResult

ScanQuiet ==
  /\ variant = "ScanPage"
  /\ page = PageInit
  /\ iu = IuInit
  /\ up = UpInit

\* The page is loaded; localStorage may hold a token of an earlier session.
AuthInit ==
  /\ CacheQuiet
  /\ cache = [k \in Keys |-> EmptyEntry]
  /\ EndpointsQuiet
  /\ ScanQuiet
  /\ RestQuiet
  /\ token \in Tokens \cup {Absent}
  /\ events = <<>>

Event(ev, kind, authorization, status) ==
  [ev |-> ev, kind |-> kind, authorization |-> authorization,
   status |-> status]

\* Requests of a kind sent and not yet answered.
InFlight(kind) ==
  Cardinality({i \in 1..Len(events) :
                 events[i].ev = "send" /\ events[i].kind = kind})
    - Cardinality({i \in 1..Len(events) :
                     events[i].ev = "recv" /\ events[i].kind = kind})

setAuthToken(tok) ==
  /\ Len(events) < MaxAuthEvents
  /\ token' = tok
  /\ events' = Append(events, Event("set", "setAuthToken", Absent, 0))
  /\ UNCHANGED <<cacheVars, retryVars, callVars, scanVars, restVars>>

clearAuthToken ==
  /\ Len(events) < MaxAuthEvents
  /\ token' = Absent
  /\ events' = Append(events, Event("clear", "clearAuthToken", Absent, 0))
  /\ UNCHANGED <<cacheVars, retryVars, callVars, scanVars, restVars>>

\* A request helper is called: the request interceptor reads the token.
SendRequest ==
  /\ Len(events) < MaxAuthEvents
  /\ events' = Append(events, Event("send", "request",
                                    AuthorizationHeader(token), 0))
  /\ UNCHANGED <<token, cacheVars, retryVars, callVars, scanVars,
                 restVars>>

\* upload is called: fetch with credentials 'include' and no headers.
SendUpload ==
  /\ Len(events) < MaxAuthEvents
  /\ events' = Append(events, Event("send", "upload", Absent, 0))
  /\ UNCHANGED <<token, cacheVars, retryVars, callVars, scanVars,
                 restVars>>

\* The response interceptor runs on the answer to a helper's request.
ReceiveResponse(status) ==
  /\ Len(events) < MaxAuthEvents
  /\ InFlight("request") > 0
  /\ events' = Append(events, Event("recv", "request", Absent, status))
  /\ token' = IF status = 401 THEN Absent ELSE token
  /\ UNCHANGED <<cacheVars, retryVars, callVars, scanVars, restVars>>

\* upload gets its answer.
ReceiveUpload(status) ==
  /\ Len(events) < MaxAuthEvents
  /\ InFlight("upload") > 0
  /\ events' = Append(events, Event("recv", "upload", Absent, status))
  /\ UNCHANGED <<token, cacheVars, retryVars, callVars, scanVars,
                 restVars>>

AuthNext ==
  \/ \E tok \in Tokens : setAuthToken(tok)
  \/ clearAuthToken
  \/ SendRequest
  \/ SendUpload
  \/ \E status \in AuthStatuses : ReceiveResponse(status)
  \/ \E status \in AuthStatuses : ReceiveUpload(status)

SpecAuth == AuthInit /\ [][AuthNext]_vars

\* ---- Scanning: ImageUpload, ScanPage and useScanImage ----

Variants == {"ScanPage", "ScanPageProgress", "useScanImage"}

PageVariants == {"ScanPage", "ScanPageProgress"}

\* The dashboard has loaded its queries before the user scans.
ScanCache ==
  [k \in Keys |->
    IF k = inventoryKeys_expiring(HookUser, 7) THEN LoadedEntry(k, "inactive")
    ELSE LoadedEntry(k, "active")]

ScanInit ==
  /\ CacheQuiet
  /\ cache = ScanCache
  /\ EndpointsQuiet
  /\ token = Absent
  /\ events = <<>>
  /\ variant \in Variants
  /\ page = PageInit
  /\ iu = IuInit
  /\ up = UpInit
  /\ RestQuiet

\* The first status handleUpload sets.
BusyStatus(v) == IF v = "ScanPageProgress" THEN "uploading" ELSE "processing"

\* handleDragOver
DragOver ==
  /\ variant \in PageVariants
  /\ page.mounted /\ page.status = "idle"
  /\ iu.state = "empty"
  /\ iu' = [iu EXCEPT !.state = "dragging"]
  /\ UNCHANGED <<variant, page, up, cacheVars, retryVars, callVars,
                 authVars,
                 restVars>>

\* handleDragLeave
DragLeave ==
  /\ variant \in PageVariants
  /\ page.mounted /\ page.status = "idle"
  /\ iu.state = "dragging"
  /\ iu' = [iu EXCEPT !.state = "empty"]
  /\ UNCHANGED <<variant, page, up, cacheVars, retryVars, callVars,
                 authVars,
                 restVars>>

\* handleDrop or handleFileChange: processFile up to its first await.
\* The drop zone and the file input are rendered in the empty view only;
\* one file is in the pipeline at a time.
SelectFile(file) ==
  /\ variant \in PageVariants
  /\ page.mounted /\ page.status = "idle"
  /\ iu.state \in {"empty", "dragging"}
  /\ up.pc \in {"idle", "done"}
  /\ up.scans < MaxScans
  /\ IF validateFile(file, 10) # Absent
     THEN /\ iu' = [iu EXCEPT !.state = "error",
                              !.error = validateFile(file, 10),
                              !.preview = Absent]
          /\ up' = [UpInit EXCEPT !.pc = "done", !.file = file,
                                  !.requests = up.requests,
                                  !.scans = up.scans + 1]
     ELSE /\ iu' = [iu EXCEPT !.state =
                       IF @ = "dragging" THEN "empty" ELSE @]
          /\ up' = [UpInit EXCEPT !.pc = "compressing", !.file = file,
                                  !.requests = up.requests,
                                  !.scans = up.scans + 1]
  /\ UNCHANGED <<variant, page, cacheVars, retryVars, callVars, authVars,
                 restVars>>

\* "Try again" of the error view of ImageUpload: resetToEmpty.
ResetToEmpty ==
  /\ variant \in PageVariants
  /\ page.mounted /\ page.status = "idle"
  /\ iu.state = "error"
  /\ iu' = [state |-> "empty", preview |-> Absent, fileName |-> "",
            fileSize |-> 0, originalSize |-> 0, error |-> ""]
  /\ UNCHANGED <<variant, page, up, cacheVars, retryVars, callVars,
                 authVars,
                 restVars>>

\* processFile without its catch: a rejected compression ends in the error
\* view.
CompressDone_fatal(env) ==
  /\ up.pc = "compressing"
  /\ up' = [up EXCEPT
       !.pc = IF compressImage(up.file, env).ok THEN "reading" ELSE "done",
       !.processed = IF compressImage(up.file, env).ok
                     THEN compressImage(up.file, env).file
                     ELSE up.file,
       !.compress = IF ~compressImage(up.file, env).ok THEN "rejected"
                    ELSE IF env.width <= 1920 /\ up.file.size < 500 * 1024
                    THEN "skipped"
                    ELSE IF ~env.ctx \/ ~env.blob.has THEN "fallback"
                    ELSE "encoded"]
  /\ iu' = IF compressImage(up.file, env).ok THEN iu
           ELSE [iu EXCEPT !.state = "error",
                           !.error = "Could not process the image."]
  /\ UNCHANGED <<variant, page, cacheVars, retryVars, callVars, authVars,
                 restVars>>

\* compressImage settles and processFile takes its result, or the
\* original file when it rejects.
CompressDone(env) ==
  /\ up.pc = "compressing"
  /\ up' = [up EXCEPT
       !.pc = "reading",
       !.processed = IF compressImage(up.file, env).ok
                     THEN compressImage(up.file, env).file
                     ELSE up.file,
       !.compress = IF ~compressImage(up.file, env).ok THEN "rejected"
                    ELSE IF env.width <= 1920 /\ up.file.size < 500 * 1024
                    THEN "skipped"
                    ELSE IF ~env.ctx \/ ~env.blob.has THEN "fallback"
                    ELSE "encoded"]
  /\ UNCHANGED <<variant, page, iu, cacheVars, retryVars, callVars,
                 authVars,
                 restVars>>

\* handleUpload up to the await of the request; the catch and finally
\* blocks when validateImageFile throws before any request is made.
StartUpload(p, v, file) ==
  IF validateImageFile(file) = NoError
  THEN [p EXCEPT !.status = BusyStatus(v), !.detectedItems = <<>>,
                 !.errorDetail = Absent, !.progress = 0]
  ELSE [p EXCEPT
         !.status = "error", !.detectedItems = <<>>, !.progress = 0,
         !.errorType =
           (IF v = "ScanPage"
            THEN CatchUpload(validateImageFile(file), Absent)
            ELSE CatchUploadProgress(validateImageFile(file),
                                     Absent)).errorType,
         !.errorDetail =
           (IF v = "ScanPage"
            THEN CatchUpload(validateImageFile(file), Absent)
            ELSE CatchUploadProgress(validateImageFile(file),
                                     Absent)).errorDetail]

\* reader.onload of processFile: the preview is stored and onUpload is
\* called with the processed file.
ReaderLoaded ==
  /\ up.pc = "reading"
  /\ iu' = IF page.mounted
           THEN [iu EXCEPT !.preview = "data:" \o up.processed.type,
                           !.fileName = up.processed.name,
                           !.fileSize = up.processed.size,
                           !.originalSize = up.file.size,
                           !.state = "preview", !.error = ""]
           ELSE iu
  /\ page' = IF page.mounted
             THEN StartUpload(page, variant, up.processed)
             ELSE page
  /\ up' = IF validateImageFile(up.processed) = NoError
           THEN [up EXCEPT !.pc = "sent", !.clock = 0,
                           !.requests = @ + 1]
           ELSE [up EXCEPT !.pc = "done"]
  /\ UNCHANGED <<variant, cacheVars, retryVars, callVars, authVars,
                 restVars>>

\* mutate(file) of useScanImage.
HookMutate(file) ==
  /\ variant = "useScanImage"
  /\ up.pc \in {"idle", "done"}
  /\ up.scans < MaxScans
  /\ page' = [page EXCEPT
       !.status = IF validateImageFile(file) = NoError THEN "processing"
                  ELSE "error",
       !.progress = 0]
  /\ up' = IF validateImageFile(file) = NoError
           THEN [UpInit EXCEPT !.pc = "sent", !.file = file,
                               !.processed = file,
                               !.requests = up.requests + 1,
                               !.scans = up.scans + 1]
           ELSE [UpInit EXCEPT !.pc = "done", !.file = file,
                               !.processed = file,
                               !.requests = up.requests,
                               !.scans = up.scans + 1]
  /\ UNCHANGED <<variant, iu, cacheVars, retryVars, callVars, authVars,
                 restVars>>

\* Ten seconds pass while the request is unanswered; fetch is called
\* without a signal, so nothing else happens.
Tick ==
  /\ up.pc = "sent"
  /\ up.clock < MaxTicks
  /\ up' = [up EXCEPT !.clock = @ + 1]
  /\ UNCHANGED <<variant, page, iu, cacheVars, retryVars, callVars,
                 authVars,
                 restVars>>

\* handleUpload without the finally block: a failure sets the error type
\* and the detail only.
SettlePage_noFinally(p, v, file, raw) ==
  IF ~p.mounted THEN p
  ELSE IF pageUploadImage(file, raw).ok
  THEN IF Len(pageUploadImage(file, raw).value) = 0
       THEN [p EXCEPT !.errorType = "no_items",
                      !.errorDetail = NoItemsText]
       ELSE [p EXCEPT !.status = "success", !.progress = 0,
                      !.detectedItems = pageUploadImage(file, raw).value]
  ELSE [p EXCEPT
         !.errorType = CatchUpload(pageUploadImage(file, raw).error,
                                   p.errorDetail).errorType,
         !.errorDetail = CatchUpload(pageUploadImage(file, raw).error,
                                     p.errorDetail).errorDetail]

\* handleUpload without the test for an empty list.
SettlePage_noEmptyCheck(p, v, file, raw) ==
  IF ~p.mounted THEN p
  ELSE IF pageUploadImage(file, raw).ok
  THEN [p EXCEPT !.status = "success", !.progress = 0,
                 !.detectedItems = pageUploadImage(file, raw).value]
  ELSE [p EXCEPT
         !.status = "error", !.progress = 0,
         !.errorType = CatchUpload(pageUploadImage(file, raw).error,
                                   p.errorDetail).errorType,
         !.errorDetail = CatchUpload(pageUploadImage(file, raw).error,
                                     p.errorDetail).errorDetail]

\* The rest of handleUpload once the request is answered by raw.
SettlePage(p, v, file, raw) ==
  IF ~p.mounted THEN p
  ELSE IF pageUploadImage(file, raw).ok
  THEN IF Len(pageUploadImage(file, raw).value) = 0
       THEN [p EXCEPT !.status = "error", !.errorType = "no_items",
                      !.errorDetail = NoItemsText, !.progress = 0]
       ELSE [p EXCEPT !.status = "success", !.progress = 0,
                      !.detectedItems = pageUploadImage(file, raw).value]
  ELSE [p EXCEPT
         !.status = "error", !.progress = 0,
         !.errorType =
           (IF v = "ScanPage"
            THEN CatchUpload(pageUploadImage(file, raw).error,
                             p.errorDetail)
            ELSE CatchUploadProgress(pageUploadImage(file, raw).error,
                                     p.errorDetail)).errorType,
         !.errorDetail =
           (IF v = "ScanPage"
            THEN CatchUpload(pageUploadImage(file, raw).error,
                             p.errorDetail)
            ELSE CatchUploadProgress(pageUploadImage(file, raw).error,
                                     p.errorDetail)).errorDetail]

\* Whether the scan answered by raw counts as succeeded on this path.
ScanSucceeded(v, file, raw) ==
  IF v = "useScanImage" THEN uploadImage(file, raw).ok
  ELSE /\ pageUploadImage(file, raw).ok
       /\ Len(pageUploadImage(file, raw).value) > 0

\* The server answers the scan request (or the connection fails) and the
\* awaiting code runs to its end.
UploadSettles(raw) ==
  /\ up.pc = "sent"
  /\ up' = [up EXCEPT !.pc = "done", !.raw = raw,
                      !.succeeded = ScanSucceeded(variant, up.processed,
                                                  raw)]
  /\ page' = IF variant = "useScanImage"
             THEN [page EXCEPT
                    !.status = IF uploadImage(up.processed, raw).ok
                               THEN "success" ELSE "error",
                    !.progress = 0]
             ELSE SettlePage(page, variant, up.processed, raw)
  /\ cache' = IF ScanSucceeded(variant, up.processed, raw)
              THEN InvalidateAfterScan(cache, variant)
              ELSE cache
  /\ UNCHANGED <<variant, iu, server, mutVars, nEv, retryVars, callVars,
                 authVars,
                 restVars>>

\* handleReset that leaves the detected items in place.
HandleReset_keepsItems ==
  /\ variant \in PageVariants
  /\ page.mounted
  /\ page.status \in {"success", "error"}
  /\ page' = [page EXCEPT !.status = "idle", !.progress = 0,
                          !.errorDetail = Absent]
  /\ iu' = IuInit
  /\ UNCHANGED <<variant, up, cacheVars, retryVars, callVars, authVars,
                 restVars>>

\* handleReset: "Scan Another" of the success view, "Try again" of the
\* error view. The idle view mounts a new ImageUpload.
HandleReset ==
  /\ variant \in PageVariants
  /\ page.mounted
  /\ page.status \in {"success", "error"}
  /\ page' = IF variant = "ScanPage"
             THEN [page EXCEPT !.status = "idle", !.detectedItems = <<>>,
                               !.errorDetail = Absent]
             ELSE [page EXCEPT !.status = "idle", !.progress = 0,
                               !.detectedItems = <<>>,
                               !.errorDetail = Absent]
  /\ iu' = IuInit
  /\ UNCHANGED <<variant, up, cacheVars, retryVars, callVars, authVars,
                 restVars>>

\* The user leaves the page: the effect cleanup clears mountedRef.
LeavePage ==
  /\ variant \in PageVariants
  /\ page.mounted
  /\ page' = [page EXCEPT !.mounted = FALSE]
  /\ UNCHANGED <<variant, iu, up, cacheVars, retryVars, callVars,
                 authVars,
                 restVars>>

ScanNext ==
  \/ DragOver
  \/ DragLeave
  \/ \E file \in Files : SelectFile(file)
  \/ ResetToEmpty
  \/ \E env \in ImageEnvs : CompressDone(env)
  \/ ReaderLoaded
  \/ \E file \in Files : HookMutate(file)
  \/ Tick
  \/ \E raw \in ScanRaws : UploadSettles(raw)
  \/ HandleReset
  \/ LeavePage

SpecScan == ScanInit /\ [][ScanNext]_vars

\* ---- ImageUpload and ScanPage: files selected in quick succession ----

OverlapFiles ==
  {File("first", "image/jpeg", 300 * 1024),
   File("second", "image/jpeg", 2 * 1024 * 1024)}

OverlapEnvs ==
  {ImageEnv(FALSE, 0, FALSE, Undefined),
   ImageEnv(TRUE, 800, TRUE, Some(200 * 1024)),
   ImageEnv(TRUE, 2400, TRUE, Some(1024 * 1024))}

OverlapRaws ==
  {HttpResponse(200, "OK", OkBody(Some(SrvList))),
   HttpResponse(200, "OK", OkBody(Some(<<>>))),
   HttpResponse(500, "Error", NoData),
   NoResponse("ERR_NETWORK")}

OverlapInit ==
  /\ CacheQuiet
  /\ cache = ScanCache
  /\ EndpointsQuiet
  /\ token = Absent
  /\ events = <<>>
  /\ variant \in PageVariants
  /\ page = PageInit
  /\ iu = IuInit
  /\ up = UpInit
  /\ hk = HkInit
  /\ cfg = CfgInit
  /\ jobs = JobsInit

\* handleDrop or handleFileChange while the drop zone is shown: processFile
\* starts, whatever earlier runs are doing.
OverlapSelectFile(file) ==
  /\ page.mounted /\ page.status = "idle"
  /\ iu.state \in {"empty", "dragging"}
  /\ Len(jobs) < MaxJobs
  /\ validateFile(file, 10) = Absent
  /\ jobs' = Append(jobs, Job("compressing", file, NoFile, NoResponse("")))
  /\ iu' = [iu EXCEPT !.state = IF @ = "dragging" THEN "empty" ELSE @]
  /\ UNCHANGED <<variant, page, up, cacheVars, retryVars, callVars,
                 authVars, hk, cfg>>

\* compressImage of run i settles.
OverlapCompressDone(i, env) ==
  /\ jobs[i].pc = "compressing"
  /\ jobs' = [jobs EXCEPT
       ![i].pc = "reading",
       ![i].processed = IF compressImage(jobs[i].file, env).ok
                        THEN compressImage(jobs[i].file, env).file
                        ELSE jobs[i].file]
  /\ UNCHANGED <<scanVars, cacheVars, retryVars, callVars, authVars, hk,
                 cfg>>

\* reader.onload of run i: the preview is stored if ImageUpload is still
\* rendered, and onUpload is called: handleUpload starts.
OverlapReaderLoaded(i) ==
  /\ jobs[i].pc = "reading"
  /\ iu' = IF page.mounted /\ page.status = "idle"
           THEN [iu EXCEPT !.preview = "data:" \o jobs[i].processed.type,
                           !.fileName = jobs[i].processed.name,
                           !.fileSize = jobs[i].processed.size,
                           !.originalSize = jobs[i].file.size,
                           !.state = "preview", !.error = ""]
           ELSE iu
  /\ page' = IF page.mounted
             THEN StartUpload(page, variant, jobs[i].processed)
             ELSE page
  /\ jobs' = [jobs EXCEPT ![i].pc =
                IF validateImageFile(jobs[i].processed) = NoError
                THEN "sent" ELSE "done"]
  /\ UNCHANGED <<variant, up, cacheVars, retryVars, callVars, authVars, hk,
                 cfg>>

\* The request of run i is answered and its handleUpload runs to the end.
OverlapSettles(i, raw) ==
  /\ jobs[i].pc = "sent"
  /\ jobs' = [jobs EXCEPT ![i].pc = "done", ![i].raw = raw]
  /\ page' = SettlePage(page, variant, jobs[i].processed, raw)
  /\ cache' = IF ScanSucceeded(variant, jobs[i].processed, raw)
              THEN InvalidateAfterScan(cache, variant)
              ELSE cache
  /\ UNCHANGED <<variant, iu, up, server, mutVars, nEv, retryVars,
                 callVars, authVars, hk, cfg>>

OverlapNext ==
  \/ \E file \in OverlapFiles : OverlapSelectFile(file)
  \/ \E i \in 1..Len(jobs), env \in OverlapEnvs : OverlapCompressDone(i, env)
  \/ \E i \in 1..Len(jobs) : OverlapReaderLoaded(i)
  \/ \E i \in 1..Len(jobs), raw \in OverlapRaws : OverlapSettles(i, raw)

SpecOverlap == OverlapInit /\ [][OverlapNext]_vars

\* ---- ConnectionTestPage: classifyError ----

\* The characters of the messages that reach classifyError with status 0 or
\* as an error that is no ApiError.
Chars(msg) ==
  CASE msg = "Request timed out. Try again." ->
        <<"R", "e", "q", "u", "e", "s", "t", " ", "t", "i", "m", "e", "d",
          " ", "o", "u", "t", ".", " ", "T", "r", "y", " ", "a", "g", "a",
          "i", "n", ".">>
    [] msg = "Connection failed. Check your internet." ->
        <<"C", "o", "n", "n", "e", "c", "t", "i", "o", "n", " ", "f", "a",
          "i", "l", "e", "d", ".", " ", "C", "h", "e", "c", "k", " ", "y",
          "o", "u", "r", " ", "i", "n", "t", "e", "r", "n", "e", "t", ".">>
    [] msg = "Failed to fetch" ->
        <<"F", "a", "i", "l", "e", "d", " ", "t", "o", " ", "f", "e", "t",
          "c", "h">>
    [] msg = "Unexpected token in JSON" ->
        <<"U", "n", "e", "x", "p", "e", "c", "t", "e", "d", " ", "t", "o",
          "k", "e", "n", " ", "i", "n", " ", "J", "S", "O", "N">>
    [] msg = "Cannot read properties of undefined" ->
        <<"C", "a", "n", "n", "o", "t", " ", "r", "e", "a", "d", " ", "p",
          "r", "o", "p", "e", "r", "t", "i", "e", "s", " ", "o", "f", " ",
          "u", "n", "d", "e", "f", "i", "n", "e", "d">>
    [] msg = "Cannot read properties of null" ->
        <<"C", "a", "n", "n", "o", "t", " ", "r", "e", "a", "d", " ", "p",
          "r", "o", "p", "e", "r", "t", "i", "e", "s", " ", "o", "f", " ",
          "n", "u", "l", "l">>
    [] OTHER -> <<>>

\* toLowerCase on one character.
LowerChar(c) ==
  CASE c = "C" -> "c"
    [] c = "F" -> "f"
    [] c = "J" -> "j"
    [] c = "N" -> "n"
    [] c = "O" -> "o"
    [] c = "R" -> "r"
    [] c = "S" -> "s"
    [] c = "T" -> "t"
    [] c = "U" -> "u"
    [] OTHER -> c

\* msg.toLowerCase()
toLowerCase(t) == [i \in 1..Len(t) |-> LowerChar(t[i])]

\* t.includes(sub)
includes(t, sub) ==
  \E i \in 1..(Len(t) - Len(sub) + 1) :
    SubSeq(t, i, i + Len(sub) - 1) = sub

Timeout == <<"t", "i", "m", "e", "o", "u", "t">>

Abort == <<"a", "b", "o", "r", "t">>

Network == <<"n", "e", "t", "w", "o", "r", "k">>

FailedToFetch ==
  <<"f", "a", "i", "l", "e", "d", " ", "t", "o", " ", "f", "e", "t", "c", "h">>

Cors == <<"c", "o", "r", "s">>

Classified(issueType, message, status) ==
  [issueType |-> issueType, message |-> message, status |-> status]

\* classifyError(error) for an ApiError or another Error.
classifyError(error) ==
  IF isApiError(error)
  THEN IF error.status = 0
       THEN IF \/ includes(toLowerCase(Chars(error.message)), Timeout)
               \/ includes(toLowerCase(Chars(error.message)), Abort)
            THEN Classified("TIMEOUT", error.message, 0)
            ELSE Classified("NETWORK / CORS",
                   "Cannot reach backend. Either CORS is blocking or the server is not running.",
                   0)
       ELSE IF error.status = 404
       THEN Classified("404 NOT FOUND", error.message, error.status)
       ELSE IF error.status = 500
       THEN Classified("500 SERVER ERROR", error.message, error.status)
       ELSE IF error.status = 503
       THEN Classified("503 UNAVAILABLE", error.message, error.status)
       ELSE IF error.status = 429
       THEN Classified("429 RATE LIMITED", error.message, error.status)
       ELSE IF error.status = 413
       THEN Classified("413 TOO LARGE", error.message, error.status)
       ELSE IF error.status = 422
       THEN Classified("422 VALIDATION", error.message, error.status)
       ELSE Classified("HTTP " \o ToString(error.status), error.message,
                       error.status)
  ELSE IF \/ includes(toLowerCase(Chars(error.message)), Network)
          \/ includes(toLowerCase(Chars(error.message)), FailedToFetch)
  THEN Classified("NETWORK", error.message, 0)
  ELSE IF includes(toLowerCase(Chars(error.message)), Cors)
  THEN Classified("CORS", error.message, 0)
  ELSE IF \/ includes(toLowerCase(Chars(error.message)), Timeout)
          \/ includes(toLowerCase(Chars(error.message)), Abort)
  THEN Classified("TIMEOUT", error.message, 0)
  ELSE Classified("ERROR", error.message, 0)

\* ---- config/env.ts ----

\* The characters a VITE_API_URL is made of here: a letter and the slash.
UrlChars == {"a", "/"}

RECURSIVE UrlsOfLen(_)
UrlsOfLen(n) ==
  IF n = 0 THEN {<<>>}
  ELSE {Append(u, c) : u \in UrlsOfLen(n - 1), c \in UrlChars}

ApiUrls ==
  {Undefined} \cup {Some(u) : u \in UNION {UrlsOfLen(n) : n \in 0..MaxUrlLen}}

EnvValues ==
  {Absent, "", "development", "production", "staging", "Production"}

\* value.replace(/\/+$/, '')
RECURSIVE StripTrailingSlashes(_)
StripTrailingSlashes(u) ==
  IF Len(u) > 0 /\ u[Len(u)] = "/"
  THEN StripTrailingSlashes(SubSeq(u, 1, Len(u) - 1))
  ELSE u

\* requireEnvVar: the text it throws with, "" when it returns.
requireEnvVar(key, value) ==
  IF ~value.has \/ value.val = <<>>
  THEN "Missing required environment variable: " \o key
         \o ". Create a .env.local file in the client/ directory."
  ELSE ""

\* The module body of env.ts, evaluated with the two variables.
loadEnv(apiUrl, envValue) ==
  IF Coalesce(envValue, "development") \notin {"development", "production"}
  THEN Cfg("thrown", apiUrl, envValue, NoEnv,
           "Invalid VITE_ENV value: \"" \o envValue
             \o "\". Expected \"development\" or \"production\".")
  ELSE IF requireEnvVar("VITE_API_URL", apiUrl) # ""
  THEN Cfg("thrown", apiUrl, envValue, NoEnv,
           requireEnvVar("VITE_API_URL", apiUrl))
  ELSE Cfg("loaded", apiUrl, envValue,
           [API_URL |-> StripTrailingSlashes(apiUrl.val),
            ENV |-> Coalesce(envValue, "development"),
            IS_DEV |-> Coalesce(envValue, "development") = "development",
            IS_PROD |-> Coalesce(envValue, "development") = "production"],
           "")

\* The bundle is about to be evaluated in some environment.
EnvInit ==
  /\ CacheQuiet
  /\ cache = [k \in Keys |-> EmptyEntry]
  /\ EndpointsQuiet
  /\ token = Absent
  /\ events = <<>>
  /\ ScanQuiet
  /\ hk = HkInit
  /\ jobs = JobsInit
  /\ \E apiUrl \in ApiUrls, envValue \in EnvValues :
       cfg = Cfg("start", apiUrl, envValue, NoEnv, "")

\* env.ts is evaluated when the first module imports it.
LoadEnv ==
  /\ cfg.pc = "start"
  /\ cfg' = loadEnv(cfg.apiUrl, cfg.envValue)
  /\ UNCHANGED <<cacheVars, retryVars, callVars, authVars, scanVars, hk,
                 jobs>>

EnvNext == LoadEnv

SpecEnv == EnvInit /\ [][EnvNext]_vars

\* ---- Hooks: useExpiringItems and useUpdateItemStatus ----

DEFAULT_EXPIRING_DAYS == 3

\* A parameter with a default value: the argument, or the default when the
\* argument is undefined.
DefaultTo(arg, default) == IF arg.has THEN arg.val ELSE default

\* The days arguments a component passes: none, 3 or 7.
DaysArgs == {Undefined} \cup {Some(d) : d \in Days}

\* getExpiring that leaves the window to the server's default.
getExpiringParams_noDays(userId, days) ==
  [user_id |-> userId, days |-> DEFAULT_EXPIRING_DAYS]

\* The path parameter and the query parameters getExpiring(userId, days)
\* passes to get.
getExpiringParams(userId, days) ==
  [user_id |-> userId, days |-> DefaultTo(days, DEFAULT_EXPIRING_DAYS)]

\* useExpiringItems(userId, days): the query key and the request of the
\* query function.
useExpiringItems(userId, days) ==
  [queryKey |-> inventoryKeys_expiring(userId, DefaultTo(days, 3)),
   params |-> getExpiringParams(userId, Some(DefaultTo(days, 3)))]

\* GET /api/expiring-items/{user_id}?days=n as the backend answers it.
ExpiringResponse(params, srv) ==
  ServerView(<<"expiring", params.user_id, params.days>>, srv)

\* The page is loaded; the cache may hold entries of earlier queries.
HooksInit ==
  /\ CacheQuiet
  /\ cache \in [Keys -> {EmptyEntry}
                   \cup {LoadedEntry(k, o) : k \in Keys,
                                             o \in {"active", "inactive"}}]
  /\ \A k \in Keys :
       cache[k] \in {EmptyEntry,
                     LoadedEntry(k, IF k[2] = HookUser THEN "active"
                                                       ELSE "inactive")}
  /\ EndpointsQuiet
  /\ token = Absent
  /\ events = <<>>
  /\ ScanQuiet
  /\ RestQuiet

HookSettled == hk.pc \in {"idle", "loaded", "failed", "success", "error"}

\* A component renders useExpiringItems(HookUser, days): the query is
\* observed and its query function is called.
UseExpiringItems(days) ==
  /\ HookSettled
  /\ cache[useExpiringItems(HookUser, days).queryKey].fetch = "idle"
  /\ hk' = Hk("fetching", "useExpiringItems", days,
              useExpiringItems(HookUser, days).queryKey,
              useExpiringItems(HookUser, days).params,
              NoResponse(""), NoResult)
  /\ cache' = [cache EXCEPT ![useExpiringItems(HookUser, days).queryKey] =
        [@ EXCEPT !.obs = "active", !.fetch = "requested"]]
  /\ UNCHANGED <<server, mutVars, nEv, retryVars, callVars, authVars,
                 scanVars, cfg, jobs>>

\* The backend answers the request of the query function, or fails, and
\* the query stores the result under its key.
ExpiringSettles ==
  /\ hk.pc = "fetching"
  /\ \E ok \in BOOLEAN :
       /\ hk' = [hk EXCEPT !.pc = IF ok THEN "loaded" ELSE "failed"]
       /\ cache' = [cache EXCEPT ![hk.key] =
            IF ok
            THEN [@ EXCEPT
                   !.data = Some(ExpiringResponse(hk.params, server)),
                   !.inv = FALSE, !.fetch = "idle"]
            ELSE [@ EXCEPT !.fetch = "idle"]]
  /\ UNCHANGED <<server, mutVars, nEv, retryVars, callVars, authVars,
                 scanVars, cfg, jobs>>

\* What the request of updateItemStatus can meet.
StatusRaws ==
  OkRaws
    \cup {NoResponse(c) : c \in {"ECONNABORTED", "ERR_NETWORK"}}
    \cup {HttpResponse(st, "Error", b) :
            st \in {400, 404, 500},
            b \in {NoData, ErrBody("srv error", Absent, Absent)}}

\* mutate({itemId, status}) of useUpdateItemStatus(HookUser).
UpdateStatusMutate(raw) ==
  /\ HookSettled
  /\ hk' = Hk("pending", "useUpdateItemStatus", Undefined, <<>>, NoParams,
              raw, NoResult)
  /\ UNCHANGED <<cacheVars, retryVars, callVars, authVars, scanVars, cfg,
                 jobs>>

\* useUpdateItemStatus whose onSuccess is that of useAddItem.
UpdateStatusSettles_inventoryOnly ==
  /\ hk.pc = "pending"
  /\ hk' = [hk EXCEPT
       !.pc = IF updateItemStatus(hk.raw).ok THEN "success" ELSE "error",
       !.res = updateItemStatus(hk.raw)]
  /\ cache' = IF updateItemStatus(hk.raw).ok
              THEN invalidateQueries(cache, inventoryKeys_all(HookUser))
              ELSE cache
  /\ UNCHANGED <<server, mutVars, nEv, retryVars, callVars, authVars,
                 scanVars, cfg, jobs>>

\* updateItemStatus settles: onSuccess invalidates, or the mutation holds
\* the error.
UpdateStatusSettles ==
  /\ hk.pc = "pending"
  /\ hk' = [hk EXCEPT
       !.pc = IF updateItemStatus(hk.raw).ok THEN "success" ELSE "error",
       !.res = updateItemStatus(hk.raw)]
  /\ cache' = IF updateItemStatus(hk.raw).ok
              THEN invalidateQueries(
                     invalidateQueries(cache, inventoryKeys_all(HookUser)),
                     <<"expiring", HookUser>>)
              ELSE cache
  /\ UNCHANGED <<server, mutVars, nEv, retryVars, callVars, authVars,
                 scanVars, cfg, jobs>>

HooksNext ==
  \/ \E days \in DaysArgs : UseExpiringItems(days)
  \/ ExpiringSettles
  \/ \E raw \in StatusRaws : UpdateStatusMutate(raw)
  \/ UpdateStatusSettles

SpecHooks == HooksInit /\ [][HooksNext]_vars

TypeOK ==
  /\ server \subseteq ItemIds
  /\ mpc \in {"idle", "cancelled", "written", "inflight", "answered",
              "succeeded", "rolledback", "settled"}

\* ================================================================ claims
KAll == inventoryKeys_all(HookUser)

ListABC == ServerView(KAll, ItemIds)

ListAC == <<ItemSeq[1], ItemSeq[3]>>

Ids(data) == {data.val[i].id : i \in 1..Len(data.val)}

\* new is old without the item itemId: nothing else removed, added,
\* changed or reordered.
IsRemovalOf(new, old, itemId) ==
  /\ new.has = old.has
  /\ old.has =>
       /\ {new.val[i] : i \in 1..Len(new.val)}
            = {old.val[i] : i \in 1..Len(old.val)}
                \ {it \in {old.val[i] : i \in 1..Len(old.val)} : it.id = itemId}
       /\ Len(new.val) = Cardinality({new.val[i] : i \in 1..Len(new.val)})
       /\ \A i, j \in 1..Len(new.val) :
            i < j => \E p, q \in 1..Len(old.val) :
                       p < q /\ old.val[p] = new.val[i] /\ old.val[q] = new.val[j]

\* C1: with the list cache holding [A,B,C], once the optimistic write for B
\* has run and the server call has succeeded, the cached list is [A,C] in
\* every later state.
C1_ListStaysAC ==
  (/\ mItem = "B"
   /\ mContext = Some(ListABC)
   /\ mpc \in {"answered", "succeeded", "settled"}
   /\ mResp.ok)
    => cache[KAll].data = Some(ListAC)

\* C2: after the rollback of a failed removal the cached list is exactly the
\* snapshot taken before the optimistic write, item for item.
C2_RollbackRestoresSnapshot ==
  (mpc = "rolledback" /\ mBefore[KAll].has)
    => /\ mContext = mBefore[KAll]
       /\ cache[KAll].data = mBefore[KAll]

C2_Witness ==
  /\ mpc = "rolledback"
  /\ mItem = "B"
  /\ mBefore[KAll] = Some(ListABC)
  /\ cache[KAll].data = Some(ListABC)

\* C3: after the rollback of a failed removal every entry the optimistic
\* write changed, the list and each expiring-items variant, holds its
\* value from before the write again.
C3_AllEntriesRestored ==
  mpc = "rolledback"
    => \A k \in HookKeys : mBefore[k].has => cache[k].data = mBefore[k]

\* C4: between the optimistic write and the arrival of the removal's
\* response no entry of the user contains the removed item.
C4_NoReappearInFlight ==
  mpc \in {"written", "inflight", "answered"}
    => \A k \in HookKeys : mItem \notin Ids(cache[k].data)

\* The step in which the mutation settles.
SettleStep == mpc \in {"succeeded", "rolledback"} /\ mpc' = "settled"

\* C5 as stated: when the mutation settles, on success or failure, every
\* cached entry of the user is invalidated and every active one has a
\* request issued at the settle.
C5_AllActiveRefetched ==
  [][SettleStep =>
      \A k \in HookKeys : cache[k].obs # "none" =>
        /\ cache'[k].inv
        /\ cache[k].obs = "active" => cache'[k].fetch = "requested"]_vars

\* C5 amended: when the mutation settles, on success or failure, every
\* cached entry of the user is invalidated; every active one has a request
\* issued at the settle, except an entry without data whose first fetch is
\* still running, which keeps that fetch.
C5_InvalidatedOnSettle ==
  [][SettleStep =>
      \A k \in HookKeys : cache[k].obs # "none" =>
        /\ cache'[k].inv
        /\ cache'[k].data = cache[k].data
        /\ cache[k].obs = "active" =>
             \/ cache'[k].fetch = "requested" /\ cache'[k].payload = NoPayload
             \/ /\ ~cache[k].data.has
                /\ cache[k].fetch = "responded"
                /\ cache'[k].fetch = "responded"
                /\ cache'[k].payload = cache[k].payload]_vars

C5_Witness ==
  /\ mpc = "settled"
  /\ steps[Len(steps)] = "invalidate"
  /\ cache[KAll].inv
  /\ cache[KAll].fetch = "requested"
  /\ \E d \in Days :
       /\ cache[inventoryKeys_expiring(HookUser, d)].inv
       /\ cache[inventoryKeys_expiring(HookUser, d)].fetch = "requested"

IsPrefix(a, b) == Len(a) <= Len(b) /\ a = SubSeq(b, 1, Len(a))

\* C6: the steps of one removal occur in the order cancel, snapshot, write,
\* server call, rollback (on failure only), invalidation; the server does
\* not see the call before the write, and a rollback follows a failure.
C6_StepOrder ==
  /\ \/ IsPrefix(steps, <<"cancel", "snapshot", "write", "call", "invalidate">>)
     \/ IsPrefix(steps, <<"cancel", "snapshot", "write", "call", "rollback",
                          "invalidate">>)
  /\ mResp.done => Len(steps) >= 4
  /\ (Len(steps) >= 5 /\ steps[5] = "rollback") <=>
       (mResp.done /\ ~mResp.ok /\ mpc \in {"rolledback", "settled"})
  /\ mpc = "settled" => steps[Len(steps)] = "invalidate"

C6_Witness ==
  steps = <<"cancel", "snapshot", "write", "call", "rollback", "invalidate">>

\* C7: right after the optimistic write every entry of the user, the list
\* and each cached expiring-items variant, is its former value without the
\* removed item, and the entries of other users are unchanged.
C7_WriteRemovesEverywhere ==
  mpc = "written" =>
    \A k \in Keys :
      IF k \in HookKeys
      THEN /\ IsRemovalOf(cache[k].data, mBefore[k], mItem)
           /\ mItem \notin Ids(cache[k].data)
      ELSE cache[k].data = mBefore[k]

C7_Witness ==
  /\ mpc = "written"
  /\ mItem = "B"
  /\ mBefore[KAll] = Some(ListABC)
  /\ cache[KAll].data = Some(ListAC)
  /\ \A d \in Days :
       /\ "B" \in Ids(mBefore[inventoryKeys_expiring(HookUser, d)])
       /\ "B" \notin Ids(cache[inventoryKeys_expiring(HookUser, d)].data)
  /\ "D" \in Ids(cache[inventoryKeys_all("u2")].data)

\* C8: the error a failed removal reports to its caller is the ApiError the
\* endpoint call threw, with its status and message.
C8_ErrorSurfacedUnchanged ==
  (mpc \in {"rolledback", "settled"} /\ ~mResp.ok)
    => /\ mError = mResp.error
       /\ isApiError(mError)
       /\ mError.status \in FailureStatuses
       /\ mError.message # ""

C8_Witness ==
  /\ mpc = "settled"
  /\ ~mResp.ok
  /\ mError.status = 404
  /\ mContext.has

\* C9: a call that fails with a non-retryable error (any status but 429 and
\* 503, or no ApiError) is the last call: withRetry throws that error at
\* once, with no delay after it; if it is the first call, it is the only one.
C9_NoRetryOnNonRetryable ==
  \A i \in 1..Len(calls) :
    (~calls[i].ok /\ ~(calls[i].error.type = "ApiError"
                         /\ calls[i].error.status \in {429, 503}))
      => /\ i = Len(calls)
         /\ rpc = "thrown"
         /\ rError = calls[i].error
         /\ Len(delays) = i - 1

C9_Witness ==
  /\ rpc = "thrown"
  /\ Len(calls) = 1
  /\ calls[1].error.status = 500
  /\ delays = <<>>

\* C10: k failures with 429 or 503 (k <= 3) followed by a success make
\* exactly k+1 calls and withRetry returns the value of the last one;
\* withRetry does not give up before the fourth call on such failures.
C10_SuccessAfterRetries ==
  /\ rpc = "returned" =>
       /\ Len(calls) \in 1..4
       /\ calls[Len(calls)].ok
       /\ rResult = calls[Len(calls)].value
       /\ \A i \in 1..(Len(calls) - 1) :
            ~calls[i].ok /\ calls[i].error.status \in {429, 503}
  /\ (rpc = "thrown" /\ \A i \in 1..Len(calls) :
                          ~calls[i].ok /\ calls[i].error.status \in {429, 503})
       => Len(calls) = 4
  /\ rpc \in {"call", "wait"} => Len(calls) <= 3

C10_Witness ==
  /\ rpc = "returned"
  /\ Len(calls) = 4
  /\ \A i \in 1..3 : calls[i].error.status = 429
  /\ rResult = mapRecipes(Some(SrvList))

\* ------------------------------------------------- C11 .. C13: retries
LastCall == calls[Len(calls)]

RateLimitedText ==
  "Recipe generation is rate-limited. Please wait a moment and try again."

\* generate has settled after every one of the 4 attempts failed with 429.
Exhausted429 ==
  /\ gen # NoResult
  /\ Len(calls) = 4
  /\ \A i \in 1..4 : ~calls[i].ok /\ isApiError(calls[i].error)
                                  /\ calls[i].error.status = 429

RetryableFailure(out) ==
  ~out.ok /\ out.error.type = "ApiError" /\ out.error.status \in {429, 503}

C12_Safe ==
  /\ Len(calls) <= 4
  /\ \A i \in 1..(Len(calls) - 1) : RetryableFailure(calls[i])
  /\ rpc = "wait" => Len(calls) <= 3 /\ RetryableFailure(LastCall)
  /\ rpc = "returned" => LastCall.ok
  /\ rpc = "thrown" => ~LastCall.ok

\* C12: withRetry calls fn at most 4 times; a call is followed by another
\* only if it failed with 429 or 503 and at most 3 calls had been made, so
\* never after a success; and withRetry always ends by returning or
\* throwing.
C12_BoundedRetry ==
  /\ []C12_Safe
  /\ <>(rpc \in {"returned", "thrown"})

C12_Witness ==
  /\ rpc = "thrown"
  /\ Len(calls) = 4
  /\ calls[1].error.status = 503
  /\ calls[2].error.status = 429
  /\ LastCall.error.status = 503

\* C13: the delay after failed attempt k (0-based) lies in
\* [1000 * 2^k, 1000 * 2^k + 500]; there are at most 3 delays and each one
\* lies between two attempts: none after the last attempt or after a failure
\* that is not retried.
C13_BackoffDelays ==
  /\ \A i \in 1..Len(delays) :
       /\ delays[i] >= 1000 * 2 ^ (i - 1)
       /\ delays[i] <= 1000 * 2 ^ (i - 1) + 500
  /\ Len(delays) <= 3
  /\ rpc \in {"call", "wait"} => Len(delays) = Len(calls)
  /\ rpc \in {"returned", "thrown"} => Len(delays) = Len(calls) - 1

C13_Witness ==
  /\ rpc = "thrown"
  /\ Len(calls) = 4
  /\ delays = <<1000, 2250, 4499>>

\* --------------------------------------------- C14 .. C20: endpoint calls
ListOps == {"getAll", "getExpiring"}

Called(ops) == apc = "done" /\ aOp \in ops

\* A response that the list endpoints turn into the empty array.
NotFoundOrNoList(raw) ==
  /\ raw.response
  /\ \/ raw.status = 404
     \/ IsOk(raw) /\ ~raw.data.list.has

\* C14: getAll, getExpiring and generate return the empty array, and throw
\* nothing, when the response is a 404 and when it is a success whose array
\* field is missing.
C14_NotFoundGivesEmptyList ==
  /\ (Called(ListOps) /\ NotFoundOrNoList(aRaw))
       => aRes.ok /\ aRes.value = <<>>
  /\ \A raw \in RecipeRaws :
       (gen # NoResult /\ NotFoundOrNoList(raw) /\ LastCall = RecipesFn(raw))
         => gen.ok /\ gen.value = <<>>

C14_Witness ==
  /\ gen # NoResult
  /\ Len(calls) = 2
  /\ calls[1].error.status = 429
  /\ LastCall.error.status = 404
  /\ gen.ok
  /\ gen.value = <<>>

\* The last call of fn failed, and not with a 404.
GenerateFailed ==
  /\ gen # NoResult
  /\ ~LastCall.ok
  /\ ~(isApiError(LastCall.error) /\ LastCall.error.status = 404)

ListCallFailed ==
  /\ Called(ListOps)
  /\ ~IsOk(aRaw)
  /\ ~(aRaw.response /\ aRaw.status = 404)

MutationOps == {"updateItemStatus", "crud_updateItem", "crud_deleteItem"}

NotFoundTexts ==
  {"Item not found. It may have been deleted.",
   "Item not found. It may have already been removed."}

InvalidInputTexts ==
  {"Invalid update data. Please check your input.",
   "Invalid status. Use: active, consumed, or wasted."}

\* The request of a mutation endpoint failed.
MutationFailed == Called(MutationOps) /\ ~IsOk(aRaw)

\* The error has the transport error's status and payload, and text as
\* message.
Reworded(error, transportError, texts) ==
  /\ error.type = "ApiError"
  /\ error.status = transportError.status
  /\ error.data = transportError.data
  /\ error.message \in texts

\* C16 (as stated): a mutation endpoint rewords a 404 as "not found" and a
\* 422 as "invalid input", keeping status and payload, and rethrows every
\* other failure unchanged.
C16_Remap404And422 ==
  MutationFailed =>
    /\ ~aRes.ok
    /\ IF aRaw.status = 404
       THEN Reworded(aRes.error, Interceptor(aRaw), NotFoundTexts)
       ELSE IF aRaw.status = 422
       THEN Reworded(aRes.error, Interceptor(aRaw), InvalidInputTexts)
       ELSE aRes.error = Interceptor(aRaw)

\* The statuses each mutation endpoint rewords.
RewordedStatuses(op) ==
  CASE op = "updateItemStatus" -> {404, 400}
    [] op = "crud_updateItem" -> {404, 422}
    [] op = "crud_deleteItem" -> {404}

\* C16 (amended): updateItemStatus rewords 404 and 400, updateItem of the
\* CRUD variant 404 and 422, deleteItem of the CRUD variant 404 only; a
\* reworded error keeps the status and the payload; every other failure of
\* the request is rethrown unchanged.
C16_RemapPerEndpoint ==
  MutationFailed =>
    /\ ~aRes.ok
    /\ IF aRaw.status \in RewordedStatuses(aOp)
       THEN /\ Reworded(aRes.error, Interceptor(aRaw),
                        IF aRaw.status = 404 THEN NotFoundTexts
                        ELSE InvalidInputTexts)
            /\ aRes.error.message # Interceptor(aRaw).message
       ELSE aRes.error = Interceptor(aRaw)

C16_Witness ==
  /\ Called({"updateItemStatus"})
  /\ aRaw.status = 400
  /\ aRaw.data.message = "srv message"
  /\ aRes.error.message = "Invalid status. Use: active, consumed, or wasted."
  /\ aRes.error.data = aRaw.data

StubOps == {"addItem", "deleteItem", "getScanHistory", "getByIngredients"}

\* C17: every endpoint function the backend does not implement throws an
\* ApiError with status 501 and sends no request.
C17_StubsFailFast ==
  Called(StubOps) =>
    /\ ~aRes.ok
    /\ isApiError(aRes.error)
    /\ aRes.error.status = 501
    /\ aRes.requests = 0

TransportOps == {"request", "upload"}

\* C18: every failure of a request helper or of upload reaches the caller
\* as an ApiError.
C18_AlwaysApiError ==
  (Called(TransportOps) /\ ~aRes.ok) => isApiError(aRes.error)

\* C19: the ApiError built by the response interceptor or by upload never
\* has an empty message.
C19_MessageNeverEmpty ==
  (Called(TransportOps) /\ ~aRes.ok /\ isApiError(aRes.error))
    => aRes.error.message # ""

\* A failed response whose body has an error or a message field.
HasServerText ==
  /\ Called({"request"})
  /\ aRaw.response
  /\ ~IsOk(aRaw)
  /\ (aRaw.data.error # Absent \/ aRaw.data.message # Absent)

ServerText == Coalesce(aRaw.data.error, aRaw.data.message)

\* C20 (as stated): the ApiError of a failed response whose body has an
\* error or message field has that text as message (error first) and the
\* body as data.
C20_ServerTextOverrides ==
  HasServerText =>
    /\ aRes.error.message = ServerText
    /\ aRes.error.data = aRaw.data

RecognisedStatuses == {400, 401, 403, 404, 408, 409, 413, 422, 429, 500, 502, 503}

\* C20 (amended): the body's text (error first) is the message only for a
\* status without a fixed per-status text; for a status that has one, the
\* message is that fixed text whatever the body says; the body is kept as
\* data in both cases.
C20_ServerTextForUnrecognised ==
  HasServerText =>
    /\ aRes.error.data = aRaw.data
    /\ aRes.error.message =
         IF aRaw.status \in RecognisedStatuses
         THEN Interceptor(HttpResponse(aRaw.status, "", NoData)).message
         ELSE ServerText

C20_Witness ==
  /\ HasServerText
  /\ aRaw.status = 418
  /\ aRaw.data.error = Absent
  /\ aRes.error.message = "srv message"

\* ------------------------------------------- C21, C24: status, validation
\* C21: the status of an error is never negative; the interceptor gives 0
\* exactly when there is no response and the response's status otherwise,
\* upload gives the response's status, and the errors made without a
\* request (validation, stubs) have status 413, 422 or 501, as has the
\* "no data" error (500).
C21_StatusValid ==
  (apc = "done" /\ ~aRes.ok /\ isApiError(aRes.error)) =>
    /\ aRes.error.status >= 0
    /\ (aRes.requests = 1 /\ ~IsOk(aRaw)) =>
         /\ aRes.error.status = 0 <=> ~aRaw.response
         /\ aRaw.response => aRes.error.status = aRaw.status
    /\ aOp \in {"upload", "uploadImage"} => aRes.error.status # 0
    /\ aRes.requests = 0 => aRes.error.status \in {413, 422, 501}
    /\ (aRes.requests = 1 /\ IsOk(aRaw)) => aRes.error.status = 500

C21_Witness ==
  /\ Called({"uploadImage"})
  /\ aRes.requests = 0
  /\ aRes.error.status = 413
  /\ aFile.size = MAX_FILE_SIZE + 1

\* The file is not one that uploadImage accepts.
Unacceptable(file) ==
  \/ file.type \notin
       {"image/jpeg", "image/png", "image/webp", "image/heic", "image/heif"}
  \/ file.size > 10485760

\* C24: uploadImage rejects a file of a type that is not accepted with 422,
\* one of an accepted type that is larger than 10 MB with 413, both without
\* sending a request; a file of exactly 10 MB and an accepted type goes out.
C24_ValidationBeforeRequest ==
  Called({"uploadImage"}) =>
    /\ Unacceptable(aFile) =>
         /\ ~aRes.ok
         /\ isApiError(aRes.error)
         /\ aRes.requests = 0
         /\ aRes.error.message # ""
         /\ aRes.error.status =
              IF aFile.type \in {"image/jpeg", "image/png", "image/webp",
                                 "image/heic", "image/heif"}
              THEN 413 ELSE 422
    /\ ~Unacceptable(aFile) => aRes.requests = 1

C24_Witness ==
  /\ Called({"uploadImage"})
  /\ aFile.type = "image/gif"
  /\ aFile.size = 12 * 1024 * 1024
  /\ aRes.error.status = 422
  /\ aRes.error.message
       = "Invalid file format \"image/gif\". Accepted: JPEG, PNG, WebP, HEIC."
  /\ aRes.requests = 0

\* ------------------------------------------------------ C22: auth token
\* A 401 was received before event i and setAuthToken not called since.
After401(i) ==
  \E j \in 1..(i - 1) :
    /\ events[j].ev = "recv"
    /\ events[j].status = 401
    /\ \A k \in (j + 1)..(i - 1) : events[k].ev # "set"

\* C22: once a request of a helper or of upload has failed with 401, the
\* token is gone and no request carries an Authorization header, until
\* setAuthToken is called.
C22_TokenClearedAfter401 ==
  /\ After401(Len(events) + 1) => token = Absent
  /\ \A i \in 1..Len(events) :
       (events[i].ev = "send" /\ After401(i))
         => events[i].authorization = Absent

\* ------------------------------------------------------ C23 to C29: scan
\* C23: an upload request that is under way is aborted when 30 seconds have
\* passed without an answer, so no request is still unanswered after more
\* than 30 seconds (the clock counts ticks of 10 seconds).
C23_UploadTimesOut == up.pc = "sent" => up.clock * 10 <= 30

\* The answer 200 with items_detected = [].
EmptyScan == HttpResponse(200, "OK", OkBody(Some(<<>>)))

\* C25: on ScanPage the status 'success' comes with at least one detected
\* item, and a scan answered 200 with an empty items_detected ends in the
\* status 'error' with the type 'no_items' and its own text, the call
\* itself having returned.
C25_SuccessHasItems ==
  variant \in PageVariants =>
    /\ page.status = "success" => Len(page.detectedItems) > 0
    /\ (up.pc = "done" /\ up.raw = EmptyScan /\ page.mounted
          /\ page.status # "idle") =>
         /\ page.status = "error"
         /\ page.errorType = "no_items"
         /\ page.errorDetail = NoItemsText
         /\ page.detectedItems = <<>>
         /\ uploadImage(up.processed, up.raw).ok
         /\ ~up.succeeded

C25_Witness ==
  /\ variant = "ScanPageProgress"
  /\ up.pc = "done"
  /\ up.raw = EmptyScan
  /\ page.status = "error"
  /\ page.errorType = "no_items"

\* C26: a scan that succeeds invalidates the inventory entries and the
\* expiring entries of the user, whichever code ran it; a scan that fails
\* leaves the cache as it is.
C26_SuccessInvalidatesBoth ==
  [][(up.pc = "sent" /\ up'.pc = "done") =>
       cache' = IF up'.succeeded
                THEN invalidateQueries(
                       invalidateQueries(cache, <<"inventory", ScanUser>>),
                       <<"expiring", ScanUser>>)
                ELSE cache]_vars

\* handleReset runs.
ResetStep == page.status \in {"success", "error"} /\ page'.status = "idle"

\* C27 as stated: reset puts every field of ScanPage and of ImageUpload
\* back to its initial value and sends nothing.
C27_ResetRestoresAll ==
  [][ResetStep =>
       /\ page' = PageInit
       /\ iu' = IuInit
       /\ up'.requests = up.requests
       /\ server' = server
       /\ cache' = cache]_vars

\* C27: reset puts status, detected items, error detail and progress of
\* ScanPage and every field of ImageUpload back to their initial values,
\* leaves the error type as it was, and sends nothing.
C27_ResetRestoresAllButErrorType ==
  [][ResetStep =>
       /\ page' = [PageInit EXCEPT !.errorType = page.errorType]
       /\ iu' = IuInit
       /\ up'.requests = up.requests
       /\ server' = server
       /\ cache' = cache]_vars

C27_Witness ==
  /\ variant = "ScanPage"
  /\ page.status = "idle"
  /\ page.errorType = "server"
  /\ page.errorDetail = Absent
  /\ iu = IuInit
  /\ up.pc = "done"
  /\ up.requests = 1

\* C28: when compressImage rejects, or falls back for want of a context or
\* of a blob, the file that goes on is the file that came in, ImageUpload
\* is not in its error view, and onUpload is called with that file: a
\* request goes out if the file is one uploadImage accepts.
C28_CompressionFailureNotFatal ==
  up.compress \in {"rejected", "fallback"} =>
    /\ up.pc \in {"reading", "sent", "done"}
    /\ up.processed = up.file
    /\ iu.state # "error"
    /\ up.pc \in {"sent", "done"} =>
         /\ (page.mounted /\ page.status # "idle") =>
               iu.state = "preview" /\ iu.fileSize = up.file.size
         /\ validateImageFile(up.file) = NoError => up.requests >= 1
         /\ (validateImageFile(up.file) # NoError
               /\ page.mounted /\ page.status # "idle") =>
               page.status = "error" /\ page.errorType = "server"

C28_Witness ==
  /\ up.compress = "rejected"
  /\ up.pc = "sent"
  /\ up.processed = up.file
  /\ up.file.size = 2 * 1024 * 1024
  /\ iu.state = "preview"
  /\ page.status = "processing"

\* C29: the file compression passes on is never larger than the file it was
\* given.
C29_NeverLarger ==
  up.pc \in {"reading", "sent", "done"} =>
    up.processed.size <= up.file.size

\* ------------------------------------------------- C30: expiring entries
\* The cache after the expiring entries of the hook's user are invalidated.
ExpiringInvalidated == invalidateQueries(cache, <<"expiring", HookUser>>)

\* C30: the expiring queries of one user for 3 and for 7 days have two
\* keys and so two entries, a write to one leaving the other as it is;
\* invalidating ['inventory', userId] changes no expiring entry;
\* invalidating ['expiring', userId] marks every cached expiring entry of
\* that user and changes no entry of another key or user.
C30_ExpiringEntriesIndependent ==
  /\ inventoryKeys_expiring(HookUser, 3) # inventoryKeys_expiring(HookUser, 7)
  /\ \A d \in Days :
       /\ inventoryKeys_expiring(HookUser, d) \in Keys
       /\ invalidateQueries(cache, inventoryKeys_all(HookUser))
             [inventoryKeys_expiring(HookUser, d)]
            = cache[inventoryKeys_expiring(HookUser, d)]
       /\ \A e \in Days \ {d} :
            setQueryData(cache, inventoryKeys_expiring(HookUser, d),
                         Some(<<>>))[inventoryKeys_expiring(HookUser, e)]
              = cache[inventoryKeys_expiring(HookUser, e)]
       /\ cache[inventoryKeys_expiring(HookUser, d)].obs # "none" =>
            ExpiringInvalidated[inventoryKeys_expiring(HookUser, d)].inv
       /\ \A u \in Users \ {HookUser} :
            ~PartialMatchKey(inventoryKeys_expiring(u, d),
                             <<"expiring", HookUser>>)
  /\ \A k \in Keys :
       (k[1] # "expiring" \/ k[2] # HookUser) =>
         ExpiringInvalidated[k] = cache[k]

C30_Witness ==
  /\ cache[inventoryKeys_expiring(HookUser, 3)].data.has
  /\ cache[inventoryKeys_expiring(HookUser, 7)].data.has
  /\ cache[inventoryKeys_expiring(HookUser, 3)].data
       # cache[inventoryKeys_expiring(HookUser, 7)].data
  /\ ~cache[inventoryKeys_expiring(HookUser, 3)].inv
  /\ cache[inventoryKeys_all("u2")].data.has

\* ------------------------------------------- C31: the window in the key
\* C31: the key of an expiring query carries the window its request sends
\* as days; with no window both are 3 and the key is that of days = 3;
\* different windows give different keys; so the entry under a key holds
\* what the backend answers for that key's window.
C31_KeyCarriesWindow ==
  /\ \A days \in DaysArgs :
       /\ useExpiringItems(HookUser, days).queryKey[3]
            = useExpiringItems(HookUser, days).params.days
       /\ ~days.has =>
            /\ useExpiringItems(HookUser, days).params.days = 3
            /\ useExpiringItems(HookUser, days).queryKey
                 = useExpiringItems(HookUser, Some(3)).queryKey
            /\ getExpiringParams(HookUser, days).days = 3
       /\ \A other \in DaysArgs :
            DefaultTo(days, 3) # DefaultTo(other, 3) =>
              useExpiringItems(HookUser, days).queryKey
                # useExpiringItems(HookUser, other).queryKey
  /\ hk.op = "useExpiringItems" =>
       /\ hk.key[3] = hk.params.days
       /\ hk.params.user_id = hk.key[2]
       /\ hk.pc = "loaded" =>
            cache[hk.key].data = Some(ServerView(hk.key, server))

C31_Witness ==
  /\ hk.op = "useExpiringItems"
  /\ hk.pc = "loaded"
  /\ ~hk.days.has
  /\ hk.key = inventoryKeys_expiring(HookUser, 3)
  /\ cache[inventoryKeys_expiring(HookUser, 7)].data.has
  /\ cache[inventoryKeys_expiring(HookUser, 7)].data # cache[hk.key].data

\* ------------------------------------------ C38: useUpdateItemStatus
\* C38: when updateItemStatus succeeds every cached entry of the user, the
\* list and each expiring window, is marked stale and no entry of another
\* user changes; when it fails the cache stays as it is and the mutation
\* holds the error the endpoint function threw.
C38_InvalidateOnSuccessOnly ==
  [][(hk.pc = "pending" /\ hk'.pc # "pending") =>
       IF updateItemStatus(hk.raw).ok
       THEN /\ hk'.pc = "success"
            /\ \A k \in Keys :
                 IF k[2] = HookUser
                 THEN /\ cache[k].obs # "none" => cache'[k].inv
                      /\ cache'[k].data = cache[k].data
                 ELSE cache'[k] = cache[k]
       ELSE /\ hk'.pc = "error"
            /\ cache' = cache
            /\ hk'.res.error = updateItemStatus(hk.raw).error
            /\ hk'.res.error # NoError]_vars

C38_Witness ==
  /\ hk.op = "useUpdateItemStatus"
  /\ hk.pc = "success"
  /\ cache[inventoryKeys_all(HookUser)].inv
  /\ cache[inventoryKeys_expiring(HookUser, 3)].inv
  /\ cache[inventoryKeys_expiring(HookUser, 7)].inv

\* ------------------------------------------------------ C33: env.ts
\* C33: evaluating env.ts throws with a text exactly when VITE_API_URL is
\* not set or empty or VITE_ENV is set to something other than
\* 'development' and 'production'; otherwise API_URL is not empty, does not
\* end in a slash, and one of IS_DEV and IS_PROD is true and the other
\* false.
C33_EnvFailsFast ==
  cfg.pc \in {"loaded", "thrown"} =>
    /\ cfg.pc = "thrown" <=>
         \/ ~cfg.apiUrl.has
         \/ cfg.apiUrl.val = <<>>
         \/ Coalesce(cfg.envValue, "development")
              \notin {"development", "production"}
    /\ cfg.pc = "thrown" => cfg.message # ""
    /\ cfg.pc = "loaded" =>
         /\ cfg.env.API_URL # <<>>
         /\ cfg.env.API_URL[Len(cfg.env.API_URL)] # "/"
         /\ cfg.env.IS_DEV # cfg.env.IS_PROD

\* ------------------------------------------------ C36: classifyError
\* C36: the error of a request helper whose request timed out
\* (ECONNABORTED) is classified as 'TIMEOUT', the error of one whose
\* connection failed as 'NETWORK / CORS'.
C36_TimeoutClassified ==
  (Called({"request"}) /\ ~aRaw.response) =>
    /\ aRes.error.status = 0
    /\ classifyError(aRes.error).status = 0
    /\ classifyError(aRes.error).issueType =
         IF aRaw.code = "ECONNABORTED" THEN "TIMEOUT" ELSE "NETWORK / CORS"

\* ------------------------------------------- C32, C34, C37: scan again
\* C32: with the progress variant of ScanPage, when the answer to the
\* upload arrives the callback has reported 100 and the status has moved
\* from 'uploading' to 'processing'.
C32_ProgressReported ==
  [][(variant = "ScanPageProgress" /\ page.mounted /\ up.pc = "sent"
        /\ up'.pc = "done" /\ up'.raw.response) =>
       page.status = "processing"]_vars

\* The scan answered by raw detected at least one item.
ItemsDetected(file, raw) ==
  /\ uploadImage(file, raw).ok
  /\ uploadImage(file, raw).value.list.has
  /\ Len(uploadImage(file, raw).value.list.val) > 0

\* onUpload has been called and handleUpload has run to its end.
UploadOver == up.pc = "done" /\ up.compress # "none"

\* C34: a mounted ScanPage whose upload has settled shows 'success' or
\* 'error' (or 'idle' after a reset), never 'uploading' or 'processing';
\* the step that settles the upload ends in 'success' exactly when items
\* were detected and in 'error' otherwise, and changes nothing of the page
\* when it is unmounted.
C34_NeverStuck ==
  /\ [](variant \in PageVariants /\ page.mounted /\ UploadOver =>
         page.status \in {"success", "error", "idle"})
  /\ [][(variant \in PageVariants /\ up.pc \in {"reading", "sent"}
          /\ up'.pc = "done") =>
         IF page.mounted
         THEN /\ page'.status \in {"success", "error"}
              /\ page'.status = "success" <=>
                   (up.pc = "sent" /\ ItemsDetected(up.processed, up'.raw))
         ELSE page' = page /\ iu' = iu]_vars

C34_Witness ==
  /\ variant = "ScanPageProgress"
  /\ page.mounted
  /\ UploadOver
  /\ up.raw = NoResponse("ERR_NETWORK")
  /\ page.status = "error"
  /\ page.errorType = "network"

\* C37: a file that validateFile accepted and processFile handed to
\* onUpload is one that validateImageFile accepts.
C37_ValidatorsAgree ==
  (variant \in PageVariants /\ up.pc \in {"sent", "done"}
     /\ up.compress # "none") =>
    validateImageFile(up.processed) = NoError

\* ------------------------------------------------ C35: one upload
\* C35: at most one upload request is under way at any time, and a
\* ScanPage that shows 'success' or 'error' keeps that status and its
\* detected items whatever other runs of processFile do.
C35_OneUploadAtATime ==
  /\ [](Cardinality({i \in 1..Len(jobs) : jobs[i].pc = "sent"}) <= 1)
  /\ [][page.status \in {"success", "error"} =>
         /\ page'.status = page.status
         /\ page'.detectedItems = page.detectedItems]_vars

\* ------------------------------------------- C39: the token's frame
\* C39: the token changes only in setAuthToken, in clearAuthToken and when
\* a 401 is received; an answer with any other status, 0 included, leaves
\* it as it is; a request that is sent carries 'Bearer <token>' when a
\* token (a non-empty string) is stored and no Authorization header when
\* none is.
C39_TokenFrame ==
  [][Len(events') > Len(events) =>
       /\ token' # token =>
            \/ events'[Len(events')].ev \in {"set", "clear"}
            \/ /\ events'[Len(events')].ev = "recv"
               /\ events'[Len(events')].status = 401
       /\ (events'[Len(events')].ev = "recv"
             /\ events'[Len(events')].status # 401) => token' = token
       /\ events'[Len(events')].ev = "send" =>
            events'[Len(events')].authorization =
              IF token \notin {Absent, ""} THEN "Bearer " \o token
              ELSE Absent]_vars

====
